---- MODULE Spec2Model ----
(***************************************************************************)
(* Trading and settlement engine of the prediction-market platform:        *)
(* the place-order, sell-position, resolve-market, cancel-market and        *)
(* check-market-expiry edge functions and the client handlers that write    *)
(* to the store (report outcome, cast vote, cancel order).                  *)
(*                                                                          *)
(* A handler is a sequence of store statements (each `await` is one).  A    *)
(* request is a record r: its inputs, what it has read so far, and `todo`,  *)
(* the statements it has already decided to issue.  Step(d, r) issues the   *)
(* next statement of r against the store d.                                 *)
(*   Spec       handlers run to completion one after the other (trading)    *)
(*   SpecLife   the same, for the market lifecycle                          *)
(*   SpecClient the same, but a client handler acts on what its page        *)
(*              loaded some requests ago                                    *)
(*   SpecConc   the statements of two requests interleave                   *)
(***************************************************************************)
EXTENDS Integers, Sequences, FiniteSets, TLC

(* ------------------------------ bounds --------------------------------- *)
MaxReqs == 4        \* requests accepted in one behaviour
MaxQty  == 2        \* largest quantity of a request
MaxLifeReqs == 5    \* the same, for the market lifecycle
MaxClientReqs == 5  \* the same, with pages loaded before a click
MaxConcReqs == 4    \* requests submitted when their statements interleave
MaxGraceReqs == 3   \* requests accepted around a sweep
MaxRaceReqs == 3    \* requests submitted when reports race
MaxSweepReqs == 4   \* requests accepted when lots trade until the sweep
MaxNow  == 3        \* hours the clock runs
LotSize == 4        \* quantity of a larger buy in the market lifecycle
MinutesPerTick == 30  \* the step of the clock
MaxVoteReqs == 7    \* requests accepted when three holders vote
MaxBlocVoters == 3  \* non-admin voters of one side in a tally
MaxAdminVoters == 2 \* admin voters of one side in a tally
MaxFaultReqs == 5   \* requests accepted when a write may fail
MaxInputReqs == 4   \* requests accepted when the inputs are not checked by a page
MaxPollReqs == 5    \* requests submitted when votes race
MaxBallotReqs == 6  \* requests accepted when voting modals are open
MaxPurseReqs == 3   \* requests submitted when purses run low
MaxLeagueReqs == 4  \* requests accepted when the body names a league
MaxTurnoutReqs == 4 \* buys and reports accepted when a vote is left to itself

(* --------------------------- fixed data -------------------------------- *)
Users   == {"a", "b", "adm"}
Traders == {"a", "b"}
Admins  == {"adm"}                 \* rows of user_roles with role = 'admin'
UserSeq == <<"a", "b", "adm">>     \* the order in which a query returns rows
Sides   == {"YES", "NO"}
Prices  == {40, 60}                \* two complementary price levels
Leagues == {"L1", "L2"}
MarketLeague   == "L1"             \* markets.league_id of the market
InitialBalance == 1000             \* league_members.token_balance default
PurseBalance   == 100              \* a token_balance an admin sets (set_balance)
Procs   == {1, 2}
PriceOf == [YES |-> 60, NO |-> 40] \* one price level for each side
Callers == {"NONE", "adm", "a"}    \* admin_user_id of a request, if any
PageOf  == [a |-> 1, b |-> 2]      \* the browser page of each trader
OrderIds == 1..(MaxReqs + MaxLifeReqs)
ClosesAt       == 1                \* markets.closes_at of the market, in hours
NoClosesAt     == 0 - 1            \* markets.closes_at of a market without one
TimeoutHours   == 1                \* no_resolve_timeout_minutes ?? 60
TimeoutChoices == {15, 60, 120}    \* minutes an admin sets the timeout to
StakePercentage == 5               \* stake_percentage ?? 5
YesBlocWeight  == 495              \* yes_bloc_weight ?? 49.5, in tenths
NoBlocWeight   == 495              \* no_bloc_weight ?? 49.5, in tenths
AdminWeight    == 10               \* admin_weight ?? 1.0, in tenths
\* rows of voting_settings a tally runs under, as yes_bloc_weight,
\* no_bloc_weight and admin_weight in tenths: the defaults, and rows an
\* admin saves from the sliders (bloc weights 0..50 by 0.5, admin 0..10 by
\* 0.1), each of a total weight of 100
TallySettings  == {<<495, 495, 10>>, <<470, 480, 50>>, <<450, 450, 100>>}

VARIABLES
  status,            \* markets.status
  resolved_outcome,  \* markets.resolved_outcome ("NONE" = null)
  reported_by,       \* markets.reported_by ("NONE" = null)
  balance,           \* league_members.token_balance, by league and user
  positions,         \* positions rows of the market, by user
  orders,            \* orders rows of the market, in created_at order
  trades,            \* trades rows of the market, in created_at order
  votes,             \* votes rows of the market, by user
  nextId,            \* next order id
  hist,              \* what the statements issued so far did (never read)
  closes_at,         \* markets.closes_at, in hours (NoClosesAt = null)
  no_resolve_timeout_minutes,  \* voting_settings.no_resolve_timeout_minutes
  now,               \* the clock, in steps of MinutesPerTick
  req,               \* requests in flight, by process
  nreq,              \* requests accepted so far
  budget,            \* requests a behaviour may accept
  last               \* the last request that ran to completion, and the
                     \* store it started from (never read by a handler)

vars == <<status, resolved_outcome, reported_by, balance, positions,
          orders, trades, votes, nextId, hist, closes_at,
          no_resolve_timeout_minutes, now, req, nreq, budget, last>>

(* ----------------------------- the store ------------------------------- *)
\* the store as one value
DB == [status |-> status, resolved_outcome |-> resolved_outcome,
       reported_by |-> reported_by, balance |-> balance,
       positions |-> positions, orders |-> orders, trades |-> trades,
       votes |-> votes, nextId |-> nextId, hist |-> hist,
       closes_at |-> closes_at,
       no_resolve_timeout_minutes |-> no_resolve_timeout_minutes]

\* the store becomes d
Commit(d) ==
  /\ status' = d.status
  /\ resolved_outcome' = d.resolved_outcome
  /\ reported_by' = d.reported_by
  /\ balance' = d.balance
  /\ positions' = d.positions
  /\ orders' = d.orders
  /\ trades' = d.trades
  /\ votes' = d.votes
  /\ nextId' = d.nextId
  /\ hist' = d.hist
  /\ closes_at' = d.closes_at
  /\ no_resolve_timeout_minutes' = d.no_resolve_timeout_minutes

NoPos == [exists |-> FALSE, yes |-> 0, no |-> 0]
NoVote == [exists |-> FALSE, vote |-> "NONE", stake |-> 0]

InitDB ==
  [status |-> "OPEN", resolved_outcome |-> "NONE", reported_by |-> "NONE",
   balance |-> [l \in Leagues |-> [u \in Users |-> InitialBalance]],
   positions |-> [u \in Users |-> NoPos],
   orders |-> <<>>, trades |-> <<>>,
   votes |-> [u \in Users |-> NoVote],
   nextId |-> 1,
   hist |-> [applied |-> [l \in Leagues |-> [u \in Users |-> 0]],
             filled |-> [i \in OrderIds |-> 0],
             paid |-> [u \in Users |-> 0],
             refunded |-> [i \in OrderIds |-> 0],
             rested |-> [i \in OrderIds |-> 0],
             staked |-> [u \in Users |-> 0]],
   closes_at |-> ClosesAt,
   no_resolve_timeout_minutes |-> 60 * TimeoutHours]

(* ----------------------------- helpers --------------------------------- *)
Min(x, y) == IF x < y THEN x ELSE y

Opposite(side) == IF side = "YES" THEN "NO" ELSE "YES"

Shares(pos, side) == IF side = "YES" THEN pos.yes ELSE pos.no

RECURSIVE SumSeq(_)
SumSeq(s) == IF s = <<>> THEN 0 ELSE Head(s) + SumSeq(Tail(s))

RECURSIVE Flatten(_)
Flatten(ss) == IF ss = <<>> THEN <<>> ELSE Head(ss) \o Flatten(Tail(ss))

(* --------------------------- store statements -------------------------- *)
\* trades.insert; `mint` and `oid` are kept for the history only.  A row
\* that breaks CHECK (price >= 1 AND price <= 99) or CHECK (quantity > 0) is
\* not inserted, and the handlers do not look at the error.
InsertTrade(d, s) ==
  IF s.price >= 1 /\ s.price <= 99 /\ s.qty > 0
  THEN [d EXCEPT !.trades = Append(@, [yes |-> s.yes, no |-> s.no,
                                       price |-> s.price, qty |-> s.qty,
                                       mint |-> s.mint]),
                 !.hist.filled[s.oid] = @ + s.qty]
  ELSE d

\* the history of a credit: a payout of winning shares, the refund of an
\* order, the return of the stake of a vote, or another credit
Credited(h, s) ==
  LET applied == [h EXCEPT !.applied[s.l][s.u] = @ + s.amt]
  IN CASE s.why = "payout" -> [applied EXCEPT !.paid[s.u] = @ + 1]
       [] s.why = "refund" -> [applied EXCEPT !.refunded[s.oid] = @ + 1]
       [] s.why = "stake" -> [applied EXCEPT !.staked[s.u] = @ + 1]
       [] OTHER -> applied

\* league_members.update({ token_balance: m.token_balance + amount }), m
\* being the row read by the statement before
AddBalance(d, s, m) ==
  [d EXCEPT !.balance[s.l][s.u] = m + s.amt,
            !.hist = Credited(@, s)]

\* a deduction applied to the balance the row holds when the update runs
SetBalance_Relative(d, s) ==
  [d EXCEPT !.balance[s.l][s.u] = @ + s.delta,
            !.hist.applied[s.l][s.u] = @ + s.delta]

\* league_members.update({ token_balance: member.token_balance - totalCost })
SetBalance(d, s) ==
  [d EXCEPT !.balance[s.l][s.u] = s.value,
            !.hist.applied[s.l][s.u] = @ + s.delta]

\* the row after "if (pos) update one column else insert"; an insert that
\* meets a row (UNIQUE (market_id, user_id)) fails and the failure is ignored
AddShares(cur, read, side, qty) ==
  IF read.exists
  THEN IF ~cur.exists THEN cur
       ELSE IF side = "YES" THEN [cur EXCEPT !.yes = read.yes + qty]
            ELSE [cur EXCEPT !.no = read.no + qty]
  ELSE IF cur.exists THEN cur
       ELSE [exists |-> TRUE,
             yes |-> IF side = "YES" THEN qty ELSE 0,
             no |-> IF side = "NO" THEN qty ELSE 0]

WritePosition(d, s, read) ==
  [d EXCEPT !.positions[s.u] = AddShares(@, read, s.side, s.qty)]

\* positions.update({ <side>_shares: value }).eq('id', position.id)
SetShares(d, s) ==
  IF ~d.positions[s.u].exists THEN d
  ELSE IF s.side = "YES" THEN [d EXCEPT !.positions[s.u].yes = s.value]
       ELSE [d EXCEPT !.positions[s.u].no = s.value]

\* orders.delete().eq('id', id)
DeleteOrderRow(os, id) == SelectSeq(os, LAMBDA o : o.id # id)

\* orders.update({ remaining_quantity }).eq('id', id)
UpdateOrderRow(os, id, rem) ==
  [i \in 1..Len(os) |-> IF os[i].id = id THEN [os[i] EXCEPT !.remaining = rem]
                        ELSE os[i]]

\* a matched order updated whatever remains
WriteOrder_UpdateOnly(d, s) ==
  [d EXCEPT !.orders = UpdateOrderRow(@, s.id, s.rem)]

\* "Update matched order": delete when nothing remains, else update
WriteOrder(d, s) ==
  [d EXCEPT !.orders = IF s.rem = 0 THEN DeleteOrderRow(@, s.id)
                       ELSE UpdateOrderRow(@, s.id, s.rem)]

\* orders.insert of the unfilled remainder
InsertOrder(d, s) ==
  [d EXCEPT !.orders = Append(@, [id |-> d.nextId, user |-> s.user,
                                  side |-> s.side, price |-> s.price,
                                  quantity |-> s.quantity,
                                  remaining |-> s.remaining, sell |-> s.sell]),
            !.nextId = @ + 1,
            !.hist.rested[d.nextId] = s.remaining]

\* markets.update({ status: 'OPEN', reported_at: null, reported_by: null })
ReopenMarket(d) == [d EXCEPT !.status = "OPEN", !.reported_by = "NONE"]

\* the next pending statement of request r issued against store d
ExecStmt(d, r) ==
  LET s == Head(r.todo)
      rest == [r EXCEPT !.todo = Tail(@)]
  IN CASE s.op = "trade"   -> [db |-> InsertTrade(d, s), r |-> rest]
       [] s.op = "failed"  -> [db |-> d, r |-> rest]
       [] s.op = "bal_r"   -> [db |-> d,
                               r |-> [rest EXCEPT !.tmp = d.balance[s.l][s.u]]]
       [] s.op = "bal_add" -> [db |-> AddBalance(d, s, r.tmp), r |-> rest]
       [] s.op = "bal_set" -> [db |-> SetBalance(d, s), r |-> rest]
       [] s.op = "pos_r"   -> [db |-> d,
                               r |-> [rest EXCEPT !.tmp = d.positions[s.u]]]
       [] s.op = "pos_add" -> [db |-> WritePosition(d, s, r.tmp), r |-> rest]
       [] s.op = "pos_set" -> [db |-> SetShares(d, s), r |-> rest]
       [] s.op = "ord_w"   -> [db |-> WriteOrder(d, s), r |-> rest]
       [] s.op = "ord_del" -> [db |-> [d EXCEPT !.orders = DeleteOrderRow(@, s.id)],
                               r |-> rest]
       [] s.op = "ord_ins" -> [db |-> InsertOrder(d, s), r |-> rest]
       [] s.op = "mkt_w"   -> [db |-> [d EXCEPT !.status = s.status], r |-> rest]
       [] s.op = "mkt_reopen" -> [db |-> ReopenMarket(d), r |-> rest]
       [] s.op = "votes_del" ->
            [db |-> [d EXCEPT !.votes = [u \in Users |-> NoVote]], r |-> rest]

(* ------------------- place-order and sell-position --------------------- *)
NewRequest(kind, pc) ==
  [kind |-> kind, pc |-> pc, todo |-> <<>>, tmp |-> 0, result |-> "pending"]

Reject(r, error) == [r EXCEPT !.pc = "done", !.result = error]

Goto(r, pc) == [r EXCEPT !.pc = pc]

\* a buy order of either side charged its price
CostPerShare_Flat(side, price) == price

\* costPerShare of a buy order
CostPerShare(side, price) == IF side = "YES" THEN price ELSE 100 - price

\* the input validation of place-order
ValidOrderInput(price, quantity) ==
  /\ price # 0 /\ quantity # 0
  /\ ~(price < 1 \/ price > 99)
  /\ ~(quantity < 1)

\* the input validation of sell-position
ValidSellInput(price, quantity) ==
  /\ price # 0 /\ quantity # 0
  /\ ~(price < 1 \/ price > 99)

\* resting sell orders of the same side at the same price, of other users
SellCandidates(os, u, side, price) ==
  SelectSeq(os, LAMBDA o : /\ o.side = side /\ o.price = price /\ o.sell
                           /\ o.remaining > 0 /\ o.user # u)

\* resting buy orders of the opposite side at any price
MintCandidates_AnyPrice(os, u, side, price) ==
  SelectSeq(os, LAMBDA o : /\ o.side = Opposite(side)
                           /\ ~o.sell /\ o.remaining > 0 /\ o.user # u)

\* resting buy (mint) orders of the opposite side at the complementary price
MintCandidates(os, u, side, price) ==
  SelectSeq(os, LAMBDA o : /\ o.side = Opposite(side) /\ o.price = 100 - price
                           /\ ~o.sell /\ o.remaining > 0 /\ o.user # u)

\* resting buy orders of either side at the same price
BuyCandidates_AnySide(os, u, side, price) ==
  SelectSeq(os, LAMBDA o : /\ o.price = price /\ ~o.sell
                           /\ o.remaining > 0 /\ o.user # u)

\* sell-position: resting buy orders of the same side at the same price
BuyCandidates(os, u, side, price) ==
  SelectSeq(os, LAMBDA o : /\ o.side = side /\ o.price = price /\ ~o.sell
                           /\ o.remaining > 0 /\ o.user # u)

\* one loop of the matching: walk the candidates while quantity remains
RECURSIVE WalkCandidates(_, _, _)
WalkCandidates(cands, remainingQuantity, isTransfer) ==
  IF cands = <<>> \/ remainingQuantity = 0 THEN <<>>
  ELSE LET o == Head(cands)
           fill == Min(remainingQuantity, o.remaining)
       IN <<[orderId |-> o.id, orderUserId |-> o.user, fillQuantity |-> fill,
             isContractTransfer |-> isTransfer,
             originalRemaining |-> o.remaining]>>
          \o WalkCandidates(Tail(cands), remainingQuantity - fill, isTransfer)

Filled(matches) == SumSeq([i \in 1..Len(matches) |-> matches[i].fillQuantity])

\* the two loops of place-order, sells first, then mints with what is left
PlanMatches(sellOrders, mintOrders, quantity) ==
  LET first == WalkCandidates(sellOrders, quantity, TRUE)
  IN first \o WalkCandidates(mintOrders, quantity - Filled(first), FALSE)

\* the update of a matched order
OrderUpdateStmt(match) ==
  [op |-> "ord_w", id |-> match.orderId,
   rem |-> match.originalRemaining - match.fillQuantity]

\* the seller of either side paid the price
SaleProceeds_AtPrice(side, price, quantity) == price * quantity

\* "Pay seller via league_members"
SaleProceeds(side, price, quantity) ==
  IF side = "YES" THEN price * quantity ELSE (100 - price) * quantity

\* the statements executing one contract-transfer match of place-order
TransferStmts(r, match) ==
  LET sellerId == match.orderUserId
      yesUserId == IF r.side = "YES" THEN r.user ELSE sellerId
      noUserId == IF r.side = "NO" THEN r.user ELSE sellerId
  IN << [op |-> "trade", yes |-> yesUserId, no |-> noUserId, price |-> r.price,
         qty |-> match.fillQuantity, mint |-> FALSE, oid |-> match.orderId],
        [op |-> "bal_r", l |-> r.league, u |-> sellerId],
        [op |-> "bal_add", l |-> r.league, u |-> sellerId,
         amt |-> SaleProceeds(r.side, r.price, match.fillQuantity),
         why |-> "proceeds"],
        [op |-> "pos_r", u |-> r.user],
        [op |-> "pos_add", u |-> r.user, side |-> r.side,
         qty |-> match.fillQuantity],
        OrderUpdateStmt(match) >>

\* a mint recorded at the price of the incoming order
TradePrice_Incoming(side, price) == price

\* tradePrice of a mint: the YES-side price
TradePrice(side, price) == IF side = "YES" THEN price ELSE 100 - price

\* the statements executing one mint match of place-order
MintStmts(r, match) ==
  LET yesUserId == IF r.side = "YES" THEN r.user ELSE match.orderUserId
      noUserId == IF r.side = "NO" THEN r.user ELSE match.orderUserId
      tradePrice == TradePrice(r.side, r.price)
  IN << [op |-> "trade", yes |-> yesUserId, no |-> noUserId,
         price |-> tradePrice, qty |-> match.fillQuantity, mint |-> TRUE,
         oid |-> match.orderId],
        [op |-> "pos_r", u |-> yesUserId],
        [op |-> "pos_add", u |-> yesUserId, side |-> "YES",
         qty |-> match.fillQuantity],
        [op |-> "pos_r", u |-> noUserId],
        [op |-> "pos_add", u |-> noUserId, side |-> "NO",
         qty |-> match.fillQuantity],
        OrderUpdateStmt(match) >>

\* the insert of the unfilled remainder as a resting order
RestStmts(r, remainingQuantity, isSell) ==
  IF remainingQuantity > 0
  THEN << [op |-> "ord_ins", user |-> r.user, side |-> r.side,
           price |-> r.price, quantity |-> r.qty,
           remaining |-> remainingQuantity, sell |-> isSell] >>
  ELSE <<>>

\* the "Execute matches" loop and the final insert of place-order
ExecuteStmts(r, matches, remainingQuantity) ==
  Flatten([i \in 1..Len(matches) |->
             IF matches[i].isContractTransfer THEN TransferStmts(r, matches[i])
             ELSE MintStmts(r, matches[i])])
  \o RestStmts(r, remainingQuantity, FALSE)

\* the request of place-order
PlaceRequest(u, side, price, quantity, league) ==
  [kind |-> "place", pc |-> "gate_markets", todo |-> <<>>, tmp |-> 0,
   result |-> "pending", user |-> u, side |-> side, price |-> price,
   qty |-> quantity, league |-> league, votingMarkets |-> FALSE,
   sellOrders |-> <<>>, matches |-> <<>>, remaining |-> quantity,
   escrowFails |-> FALSE]

\* one statement of place-order that reads the store and decides what follows
PlaceStep(d, r) ==
  CASE r.pc = "gate_markets" ->
         \* "Check if user has pending votes": the markets in VOTING
         [db |-> d,
          r |-> [r EXCEPT !.votingMarkets = (d.status = "VOTING"),
                          !.pc = IF d.status = "VOTING" THEN "gate_votes"
                                 ELSE "validate"]]
    [] r.pc = "gate_votes" ->
         \* the votes of the user: rejected when a VOTING market has none
         [db |-> d,
          r |-> IF r.votingMarkets /\ ~d.votes[r.user].exists
                THEN Reject(r, "PendingVote") ELSE Goto(r, "validate")]
    [] r.pc = "validate" ->
         \* the admin role of the user is read, then "Validate inputs"
         [db |-> d,
          r |-> IF ValidOrderInput(r.price, r.qty) THEN Goto(r, "market")
                ELSE Reject(r, "Invalid")]
    [] r.pc = "market" ->
         \* "Check market is OPEN"
         [db |-> d,
          r |-> IF d.status # "OPEN" THEN Reject(r, "MarketNotOpen")
                ELSE Goto(r, "member")]
    [] r.pc = "member" ->
         \* "Get user's league balance", the check, the deduction decided
         LET member == d.balance[r.league][r.user]
             totalCost == CostPerShare(r.side, r.price) * r.qty
         IN [db |-> d,
             r |-> IF r.user \in Admins THEN Goto(r, "sells")
                   ELSE IF member < totalCost
                        THEN Reject(r, "InsufficientBalance")
                   ELSE IF r.escrowFails
                        THEN [r EXCEPT !.pc = "deduct_error",
                                !.todo = << [op |-> "failed"] >>]
                   ELSE [r EXCEPT !.pc = "sells",
                           !.todo = << [op |-> "bal_set", l |-> r.league,
                                        u |-> r.user,
                                        value |-> member - totalCost,
                                        delta |-> 0 - totalCost] >>]]
    [] r.pc = "deduct_error" ->
         \* if (deductError) return 'Failed to deduct balance'
         [db |-> d, r |-> Reject(r, "DeductFailed")]
    [] r.pc = "sells" ->
         \* the sellOrders query
         [db |-> d,
          r |-> [r EXCEPT !.sellOrders = SellCandidates(d.orders, r.user,
                                                        r.side, r.price),
                          !.pc = "mints"]]
    [] r.pc = "mints" ->
         \* the mintOrders query, the two loops and the statements decided
         LET mintOrders == MintCandidates(d.orders, r.user, r.side, r.price)
             matches == PlanMatches(r.sellOrders, mintOrders, r.qty)
             remainingQuantity == r.qty - Filled(matches)
         IN [db |-> d,
             r |-> [r EXCEPT !.matches = matches,
                             !.remaining = remainingQuantity,
                             !.todo = ExecuteStmts(r, matches, remainingQuantity),
                             !.pc = "respond"]]
    [] r.pc = "respond" ->
         \* { success: true, matched, remaining, trades }
         [db |-> d, r |-> [r EXCEPT !.pc = "done", !.result = "ok"]]

\* the statements executing one fill of sell-position
SellFillStmts(r, match) ==
  LET yesUserId == IF r.side = "YES" THEN match.orderUserId ELSE r.user
      noUserId == IF r.side = "NO" THEN match.orderUserId ELSE r.user
  IN << [op |-> "trade", yes |-> yesUserId, no |-> noUserId, price |-> r.price,
         qty |-> match.fillQuantity, mint |-> FALSE, oid |-> match.orderId] >>
     \o (IF r.league # "NONE"
         THEN << [op |-> "bal_r", l |-> r.league, u |-> r.user],
                 [op |-> "bal_add", l |-> r.league, u |-> r.user,
                  amt |-> SaleProceeds(r.side, r.price, match.fillQuantity),
                  why |-> "proceeds"] >>
         ELSE <<>>)
     \o << [op |-> "pos_r", u |-> match.orderUserId],
           [op |-> "pos_add", u |-> match.orderUserId, side |-> r.side,
            qty |-> match.fillQuantity] >>

\* the trade loop, then the order-update loop, then the final insert
SellExecuteStmts(r, matches, remainingQuantity) ==
  Flatten([i \in 1..Len(matches) |-> SellFillStmts(r, matches[i])])
  \o [i \in 1..Len(matches) |-> OrderUpdateStmt(matches[i])]
  \o RestStmts(r, remainingQuantity, TRUE)

\* the request of sell-position
SellRequest(u, side, price, quantity, league) ==
  [kind |-> "sell", pc |-> "validate", todo |-> <<>>, tmp |-> 0,
   result |-> "pending", user |-> u, side |-> side, price |-> price,
   qty |-> quantity, league |-> league, matches |-> <<>>,
   remaining |-> quantity, escrowFails |-> FALSE]

\* sell-position without the check that the market is OPEN
SellStep_AnyStatus(d, r) ==
  CASE r.pc = "validate" ->
         [db |-> d,
          r |-> IF ValidSellInput(r.price, r.qty) THEN Goto(r, "market")
                ELSE Reject(r, "Invalid")]
    [] r.pc = "market" -> [db |-> d, r |-> Goto(r, "position")]
    [] r.pc = "position" ->
         LET position == d.positions[r.user]
             availableShares == Shares(position, r.side)
         IN [db |-> d,
             r |-> IF ~position.exists THEN Reject(r, "NoPosition")
                   ELSE IF r.qty > availableShares
                        THEN Reject(r, "InsufficientShares")
                   ELSE [r EXCEPT !.pc = "buys",
                           !.todo = << IF r.escrowFails THEN [op |-> "failed"]
                                       ELSE [op |-> "pos_set", u |-> r.user,
                                             side |-> r.side,
                                             value |-> availableShares
                                                       - r.qty] >>]]
    [] r.pc = "buys" ->
         LET buyOrders == BuyCandidates(d.orders, r.user, r.side, r.price)
             matches == WalkCandidates(buyOrders, r.qty, TRUE)
             remainingQuantity == r.qty - Filled(matches)
         IN [db |-> d,
             r |-> [r EXCEPT !.matches = matches,
                             !.remaining = remainingQuantity,
                             !.todo = SellExecuteStmts(r, matches,
                                                       remainingQuantity),
                             !.pc = "respond"]]
    [] r.pc = "respond" ->
         [db |-> d, r |-> [r EXCEPT !.pc = "done", !.result = "ok"]]

\* one statement of sell-position that reads the store
SellStep(d, r) ==
  CASE r.pc = "validate" ->
         [db |-> d,
          r |-> IF ValidSellInput(r.price, r.qty) THEN Goto(r, "market")
                ELSE Reject(r, "Invalid")]
    [] r.pc = "market" ->
         [db |-> d,
          r |-> IF d.status # "OPEN" THEN Reject(r, "MarketNotOpen")
                ELSE Goto(r, "position")]
    [] r.pc = "position" ->
         \* the position of the seller, the share check, the escrow decided
         LET position == d.positions[r.user]
             availableShares == Shares(position, r.side)
         IN [db |-> d,
             r |-> IF ~position.exists THEN Reject(r, "NoPosition")
                   ELSE IF r.qty > availableShares
                        THEN Reject(r, "InsufficientShares")
                   ELSE [r EXCEPT !.pc = "buys",
                           !.todo = << IF r.escrowFails THEN [op |-> "failed"]
                                       ELSE [op |-> "pos_set", u |-> r.user,
                                             side |-> r.side,
                                             value |-> availableShares
                                                       - r.qty] >>]]
    [] r.pc = "buys" ->
         \* "Match against BUY orders" and the statements decided
         LET buyOrders == BuyCandidates(d.orders, r.user, r.side, r.price)
             matches == WalkCandidates(buyOrders, r.qty, TRUE)
             remainingQuantity == r.qty - Filled(matches)
         IN [db |-> d,
             r |-> [r EXCEPT !.matches = matches,
                             !.remaining = remainingQuantity,
                             !.todo = SellExecuteStmts(r, matches,
                                                       remainingQuantity),
                             !.pc = "respond"]]
    [] r.pc = "respond" ->
         [db |-> d, r |-> [r EXCEPT !.pc = "done", !.result = "ok"]]

(* ---------------------- cancel order (TradingPanel) -------------------- *)
\* the request of a click on Cancel; the page is loaded first
CancelOrderRequest(u, id) ==
  [kind |-> "cancelorder", pc |-> "load", todo |-> <<>>, tmp |-> 0,
   result |-> "pending", user |-> u, id |-> id,
   viewOrders |-> <<>>, viewPosition |-> NoPos]

\* fetchData of the market page, then handleCancelOrder on what it loaded
CancelOrderStep(d, r) ==
  CASE r.pc = "load" ->
         \* orders of the market with remaining > 0, own ones passed on;
         \* the position of the user
         [db |-> d,
          r |-> [r EXCEPT
                   !.viewOrders = SelectSeq(d.orders,
                                    LAMBDA o : o.remaining > 0 /\ o.user = r.user),
                   !.viewPosition = d.positions[r.user],
                   !.pc = "click"]]
    [] r.pc = "click" ->
         \* orders.find, the delete and the share refund decided
         LET found == SelectSeq(r.viewOrders, LAMBDA o : o.id = r.id)
         IN [db |-> d,
             r |-> IF found = <<>> THEN Reject(r, "NoSuchOrder")
                   ELSE LET order == found[1] IN
                     [r EXCEPT !.pc = "respond",
                        !.todo = << [op |-> "ord_del", id |-> r.id] >>
                          \o (IF order.sell /\ r.viewPosition.exists
                              THEN << [op |-> "pos_set", u |-> r.user,
                                       side |-> order.side,
                                       value |-> Shares(r.viewPosition, order.side)
                                                 + order.remaining] >>
                              ELSE <<>>)]]
    [] r.pc = "respond" ->
         [db |-> d, r |-> [r EXCEPT !.pc = "done", !.result = "ok"]]

(* ----------------------------- settlement ------------------------------ *)
\* an open order of either side refunded its price
RefundStmts_AtPrice(order, leagueId) ==
  (IF leagueId # "NONE"
   THEN << [op |-> "bal_r", l |-> leagueId, u |-> order.user],
           [op |-> "bal_add", l |-> leagueId, u |-> order.user,
            amt |-> order.price * order.remaining, why |-> "refund",
            oid |-> order.id] >>
   ELSE <<>>)
  \o << [op |-> "ord_del", id |-> order.id] >>

\* the statements refunding one open order and deleting it
RefundStmts(order, leagueId) ==
  LET costPerShare == IF order.side = "YES" THEN order.price
                      ELSE 100 - order.price
      refund == costPerShare * order.remaining
  IN (IF leagueId # "NONE"
      THEN << [op |-> "bal_r", l |-> leagueId, u |-> order.user],
              [op |-> "bal_add", l |-> leagueId, u |-> order.user,
               amt |-> refund, why |-> "refund", oid |-> order.id] >>
      ELSE <<>>)
     \o << [op |-> "ord_del", id |-> order.id] >>

\* "Refund unfilled orders": the loop over the orders with remaining > 0
RefundAllStmts(os, leagueId) ==
  LET openOrders == SelectSeq(os, LAMBDA o : o.remaining > 0)
  IN Flatten([i \in 1..Len(openOrders) |-> RefundStmts(openOrders[i], leagueId)])

\* a position paid the shares of both sides
PayoutStmts_BothSides(u, position, outcome, leagueId) ==
  IF position.exists /\ position.yes + position.no > 0 /\ leagueId # "NONE"
  THEN << [op |-> "bal_r", l |-> leagueId, u |-> u],
          [op |-> "bal_add", l |-> leagueId, u |-> u,
           amt |-> (position.yes + position.no) * 100, why |-> "payout"] >>
  ELSE <<>>

\* the statements paying one position its winning shares
PayoutStmts(u, position, outcome, leagueId) ==
  LET winningShares == Shares(position, outcome)
  IN IF position.exists /\ winningShares > 0 /\ leagueId # "NONE"
     THEN << [op |-> "bal_r", l |-> leagueId, u |-> u],
             [op |-> "bal_add", l |-> leagueId, u |-> u,
              amt |-> winningShares * 100, why |-> "payout"] >>
     ELSE <<>>

\* "Settle positions": the loop over the positions of the market
PayoutAllStmts(ps, outcome, leagueId) ==
  Flatten([i \in 1..Len(UserSeq) |->
             PayoutStmts(UserSeq[i], ps[UserSeq[i]], outcome, leagueId)])

(* ------------------------- Number arithmetic --------------------------- *)
\* Naturals of any size, as the binary digits of the number, least
\* significant first, with no leading zero (0 is the empty sequence).
\* The operators split their range in halves, so that the depth of the
\* evaluation grows with the logarithm of the length.
RECURSIVE BigOf(_)
BigOf(n) == IF n = 0 THEN <<>> ELSE <<n % 2>> \o BigOf(n \div 2)

BigOnes(s) == {i \in 1..Len(s) : s[i] = 1}

BigTop(S) == CHOOSE i \in S : \A j \in S : j <= i

BigLow(S) == CHOOSE i \in S : \A j \in S : i <= j

\* s up to the highest of the positions `ones` of its digits 1
BigKeep(s, ones) == IF ones = {} THEN <<>> ELSE SubSeq(s, 1, BigTop(ones))

BigTrim(s) == BigKeep(s, BigOnes(s))

BigDigit(s, i) == IF i <= Len(s) THEN s[i] ELSE 0

\* the digit and the carry (or borrow) out of a position that sums to t
BigCarry(t) == [s |-> <<(t + 2) % 2>>, c |-> IF t < 0 THEN 1 ELSE t \div 2]

BigJoin(low, high) == [s |-> low.s \o high.s, c |-> high.c]

\* digits lo..hi of a + sign * (b + carry), and the carry out of them
RECURSIVE BigSumRange(_, _, _, _, _, _)
RECURSIVE BigSumUpper(_, _, _, _, _, _)
BigSumRange(a, b, sign, lo, hi, carry) ==
  IF lo > hi THEN [s |-> <<>>, c |-> carry]
  ELSE IF lo = hi
  THEN BigCarry(BigDigit(a, lo) + sign * (BigDigit(b, lo) + carry))
  ELSE BigSumUpper(a, b, sign, (lo + hi) \div 2, hi,
                   BigSumRange(a, b, sign, lo, (lo + hi) \div 2, carry))

BigSumUpper(a, b, sign, mid, hi, low) ==
  BigJoin(low, BigSumRange(a, b, sign, mid + 1, hi, low.c))

BigWithCarry(sum) == IF sum.c = 1 THEN Append(sum.s, 1) ELSE sum.s

BigAdd(a, b) ==
  BigWithCarry(BigSumRange(a, b, 1, 1,
                           IF Len(a) > Len(b) THEN Len(a) ELSE Len(b), 0))

\* a - b, for a >= b
BigSub(a, b) == BigTrim(BigSumRange(a, b, 0 - 1, 1, Len(a), 0).s)

\* a < b, for a and b of one length that differ at the positions `differ`
BigLessAt(a, b, differ) ==
  differ # {} /\ a[BigTop(differ)] < b[BigTop(differ)]

BigLess(a, b) ==
  IF Len(a) # Len(b) THEN Len(a) < Len(b)
  ELSE BigLessAt(a, b, {i \in 1..Len(a) : a[i] # b[i]})

\* a * 2^k and a \div 2^k
BigShl(a, k) == IF a = <<>> THEN <<>> ELSE [i \in 1..k |-> 0] \o a
BigShr(a, k) == IF k >= Len(a) THEN <<>> ELSE SubSeq(a, k + 1, Len(a))

\* a times the digits lo..hi of b
RECURSIVE BigMulRange(_, _, _, _)
BigMulRange(a, b, lo, hi) ==
  IF lo > hi THEN <<>>
  ELSE IF lo = hi THEN (IF b[lo] = 1 THEN a ELSE <<>>)
  ELSE BigAdd(BigMulRange(a, b, lo, (lo + hi) \div 2),
              BigShl(BigMulRange(a, b, (lo + hi) \div 2 + 1, hi),
                     (lo + hi) \div 2 + 1 - lo))

BigMul(a, b) == BigMulRange(a, b, 1, Len(b))

\* one step of the long division by b: r2 is twice the remainder so far
\* plus the next digit of the dividend
BigDivDigit(r2, b) ==
  IF BigLess(r2, b) THEN [q |-> <<0>>, r |-> r2]
  ELSE [q |-> <<1>>, r |-> BigSub(r2, b)]

BigDivJoin(high, low) == [q |-> high.q \o low.q, r |-> low.r]

\* long division by b # 0 over the digits hi down to lo of a, entered with
\* the remainder r of the digits above them; the digits of the quotient
\* come most significant first
RECURSIVE BigDivRange(_, _, _, _, _)
RECURSIVE BigDivLower(_, _, _, _, _)
BigDivRange(a, b, lo, hi, r) ==
  IF lo > hi THEN [q |-> <<>>, r |-> r]
  ELSE IF lo = hi THEN BigDivDigit(BigTrim(<<a[lo]>> \o r), b)
  ELSE BigDivLower(a, b, lo, (lo + hi) \div 2,
                   BigDivRange(a, b, (lo + hi) \div 2 + 1, hi, r))

BigDivLower(a, b, lo, mid, high) ==
  BigDivJoin(high, BigDivRange(a, b, lo, mid, high.r))

\* the quotient with its least significant digit first
BigQuotient(d, n) ==
  [q |-> BigTrim([i \in 1..n |-> d.q[n + 1 - i]]), r |-> d.r]

BigDiv(a, b) == BigQuotient(BigDivRange(a, b, 1, Len(a), <<>>), Len(a))

\* The Number type of the runtime: IEEE 754 binary64, here only the
\* non-negative finite values, as m * 2^e with m odd and below 2^53.
F64Bits == 53

F64Shift(m, e, k) == [m |-> BigShr(m, k), e |-> e + k]

F64NormAt(m, e, ones) ==
  IF ones = {} THEN [m |-> <<>>, e |-> 0] ELSE F64Shift(m, e, BigLow(ones) - 1)

F64Norm(m, e) == F64NormAt(m, e, BigOnes(m))

\* kept * 2^e plus a fraction of its last digit: half (0 or 1) for the first
\* digit dropped, low when anything was dropped after that one
F64RoundUp(kept, e, half, low) ==
  F64Norm(IF half = 1 /\ (low \/ kept[1] = 1) THEN BigAdd(kept, <<1>>)
          ELSE kept, e)

\* m * 2^e (plus a fraction of its last digit when sticky) rounded to the
\* nearest value, ties to even
F64Round(m, e, sticky) ==
  IF Len(m) <= F64Bits THEN F64Norm(m, e)
  ELSE F64RoundUp(BigShr(m, Len(m) - F64Bits), e + Len(m) - F64Bits,
                  m[Len(m) - F64Bits],
                  sticky \/ \E i \in 1..(Len(m) - F64Bits - 1) : m[i] = 1)

F64Of(n) == F64Norm(BigOf(n), 0)

F64Min(i, j) == IF i < j THEN i ELSE j

F64AddAt(x, y, e) ==
  F64Round(BigAdd(BigShl(x.m, x.e - e), BigShl(y.m, y.e - e)), e, FALSE)

F64Add(x, y) ==
  IF x.m = <<>> THEN y
  ELSE IF y.m = <<>> THEN x
  ELSE F64AddAt(x, y, F64Min(x.e, y.e))

F64Mul(x, y) == F64Round(BigMul(x.m, y.m), x.e + y.e, FALSE)

F64Quotient(d, e) == F64Round(d.q, e, d.r # <<>>)

\* x / y for y # 0, from k more digits of x: enough for the rounding
F64DivAt(x, y, k) == F64Quotient(BigDiv(BigShl(x.m, k), y.m), x.e - y.e - k)

F64Div(x, y) ==
  IF x.m = <<>> THEN x ELSE F64DivAt(x, y, F64Bits + 2 + Len(y.m))

F64LessAt(x, y, e) == BigLess(BigShl(x.m, x.e - e), BigShl(y.m, y.e - e))

F64Less(x, y) == F64LessAt(x, y, F64Min(x.e, y.e))

(* ---------------------------- resolve-market --------------------------- *)
\* no position counted as a stakeholder
Stakeholders_None(ps) == {}

\* positions with shares of either side
Stakeholders(ps) == {u \in Users : ps[u].exists /\ (ps[u].yes > 0 \/ ps[u].no > 0)}

Voters(vs, vote) == {u \in Users : vs[u].exists /\ vs[u].vote = vote}

\* a setting of voting_settings, kept in tenths, as the Number it is read as
Weight(tenths) == F64Div(F64Of(tenths), F64Of(10))

\* `total += adminWeight`, once for each of the k votes of admins
RECURSIVE AddAdminVotes(_, _, _)
AddAdminVotes(total, adminWeight, k) ==
  IF k = 0 THEN total
  ELSE AddAdminVotes(F64Add(total, adminWeight), adminWeight, k - 1)

\* blocWeight * (bloc / total), added to 0 when there is a non-admin voter
BlocShare(blocWeight, bloc, total) ==
  IF total > 0 THEN F64Mul(blocWeight, F64Div(F64Of(bloc), F64Of(total)))
  ELSE F64Of(0)

\* yesWeightedTotal or noWeightedTotal: the share of the bloc weight, then
\* the votes of admins
WeightedTotal(blocWeight, adminWeight, bloc, total, admins) ==
  AddAdminVotes(BlocShare(Weight(blocWeight), bloc, total),
                Weight(adminWeight), admins)

\* totalWeightedVotes > 0 ? yesWeightedTotal / totalWeightedVotes * 100 : 0
Percentage(yesWeightedTotal, totalWeightedVotes) ==
  IF F64Less(F64Of(0), totalWeightedVotes)
  THEN F64Mul(F64Div(yesWeightedTotal, totalWeightedVotes), F64Of(100))
  ELSE F64Of(0)

PercentageOf(yesWeightedTotal, noWeightedTotal) ==
  Percentage(yesWeightedTotal, F64Add(yesWeightedTotal, noWeightedTotal))

\* yesPercentage, from the three weights and the numbers of non-admin YES
\* and NO voters (y, n) and of admin YES and NO voters (a, b)
YesPercentage(yesBlocWeight, noBlocWeight, adminWeight, y, n, a, b) ==
  PercentageOf(WeightedTotal(yesBlocWeight, adminWeight, y, y + n, a),
               WeightedTotal(noBlocWeight, adminWeight, n, y + n, b))

\* yesPercentage <= 50
TallyRejected(yesBlocWeight, noBlocWeight, adminWeight, y, n, a, b) ==
  ~F64Less(F64Of(50),
           YesPercentage(yesBlocWeight, noBlocWeight, adminWeight, y, n, a, b))

\* the tally of the votes of the market under the settings of the store
VoteRejected(vs) ==
  TallyRejected(YesBlocWeight, NoBlocWeight, AdminWeight,
                Cardinality(Voters(vs, "YES") \ Admins),
                Cardinality(Voters(vs, "NO") \ Admins),
                Cardinality(Voters(vs, "YES") \cap Admins),
                Cardinality(Voters(vs, "NO") \cap Admins))

\* the loop returning their stake to every voter
StakeReturnStmts_AnyVote(vs, vote, leagueId) ==
  Flatten([i \in 1..Len(UserSeq) |->
     LET u == UserSeq[i] IN
     IF vs[u].exists /\ vs[u].stake > 0 /\ leagueId # "NONE"
     THEN << [op |-> "bal_r", l |-> leagueId, u |-> u],
             [op |-> "bal_add", l |-> leagueId, u |-> u,
              amt |-> vs[u].stake, why |-> "stake"] >>
     ELSE <<>>])

\* the loop returning their stake to the YES voters, whatever the consensus
StakeReturnStmts_YesVote(vs, vote, leagueId) ==
  Flatten([i \in 1..Len(UserSeq) |->
     LET u == UserSeq[i] IN
     IF vs[u].exists /\ vs[u].vote = "YES" /\ vs[u].stake > 0 /\ leagueId # "NONE"
     THEN << [op |-> "bal_r", l |-> leagueId, u |-> u],
             [op |-> "bal_add", l |-> leagueId, u |-> u,
              amt |-> vs[u].stake, why |-> "stake"] >>
     ELSE <<>>])

\* the loop returning their stake to the voters of `vote`
StakeReturnStmts(vs, vote, leagueId) ==
  Flatten([i \in 1..Len(UserSeq) |->
     LET u == UserSeq[i] IN
     IF vs[u].exists /\ vs[u].vote = vote /\ vs[u].stake > 0 /\ leagueId # "NONE"
     THEN << [op |-> "bal_r", l |-> leagueId, u |-> u],
             [op |-> "bal_add", l |-> leagueId, u |-> u,
              amt |-> vs[u].stake, why |-> "stake"] >>
     ELSE <<>>])

\* the request of resolve-market; admin = "NONE" when no admin_user_id is sent
ResolveRequest(admin, outcome) ==
  [kind |-> "resolve", pc |-> "market", todo |-> <<>>, tmp |-> 0,
   result |-> "pending", admin |-> admin, outcome |-> outcome,
   market |-> "NONE", stakeholders |-> {}, verdict |-> "NONE",
   by |-> "NONE"]

\* one statement of resolve-market that reads the store
ResolveStep(d, r) ==
  CASE r.pc = "market" ->
         \* the market row and the voting settings
         [db |-> d, r |-> [r EXCEPT !.market = d.status, !.pc = "role"]]
    [] r.pc = "role" ->
         \* the admin branch reads the role; the other one checks the status
         \* read before and reads the positions
         [db |-> d,
          r |-> IF r.admin # "NONE"
                THEN IF r.admin \in Admins THEN Goto(r, "resolve")
                     ELSE Reject(r, "NotAuthorized")
                ELSE IF r.market # "VOTING" THEN Reject(r, "NotVoting")
                     ELSE [r EXCEPT !.stakeholders = Stakeholders(d.positions),
                                    !.pc = "votes"]]
    [] r.pc = "votes" ->
         \* the votes, the checks, the tally and the stake returns decided
         LET vs == d.votes
             voted == {u \in Users : vs[u].exists}
         IN [db |-> d,
             r |-> IF voted = {} THEN Reject(r, "NoVotes")
                   ELSE IF ~(r.stakeholders \subseteq voted)
                        THEN Reject(r, "NotAllVoted")
                   ELSE IF VoteRejected(vs)
                        THEN [r EXCEPT !.pc = "respond", !.verdict = "REJECTED",
                                !.todo = StakeReturnStmts(vs, "NO", MarketLeague)
                                         \o << [op |-> "mkt_reopen"],
                                               [op |-> "votes_del"] >>]
                   ELSE [r EXCEPT !.pc = "resolve",
                           !.todo = StakeReturnStmts(vs, "YES", MarketLeague)]]
    [] r.pc = "resolve" ->
         \* markets.update({ status: 'RESOLVED', resolved_outcome })
         LET resolveOutcome == IF r.admin # "NONE" THEN r.outcome ELSE "YES"
         IN [db |-> [d EXCEPT !.status = "RESOLVED",
                              !.resolved_outcome = resolveOutcome],
             r |-> [r EXCEPT !.verdict = resolveOutcome, !.pc = "payouts"]]
    [] r.pc = "payouts" ->
         [db |-> d,
          r |-> [r EXCEPT !.todo = PayoutAllStmts(d.positions, r.verdict,
                                                  MarketLeague),
                          !.pc = "orders"]]
    [] r.pc = "orders" ->
         [db |-> d,
          r |-> [r EXCEPT !.todo = RefundAllStmts(d.orders, MarketLeague),
                          !.pc = "respond"]]
    [] r.pc = "respond" ->
         [db |-> d, r |-> [r EXCEPT !.pc = "done", !.result = "ok"]]

(* ---------------------------- cancel-market ---------------------------- *)
CancelMarketRequest(admin) ==
  [kind |-> "cancelmarket", pc |-> "role", todo |-> <<>>, tmp |-> 0,
   result |-> "pending", admin |-> admin]

\* one statement of cancel-market that reads the store
CancelMarketStep(d, r) ==
  CASE r.pc = "role" ->
         [db |-> d,
          r |-> IF r.admin \in Admins THEN Goto(r, "market")
                ELSE Reject(r, "NotAuthorized")]
    [] r.pc = "market" ->
         [db |-> d,
          r |-> IF d.status = "RESOLVED" \/ d.status = "CANCELLED"
                THEN Reject(r, "AlreadyResolvedOrCancelled")
                ELSE Goto(r, "orders")]
    [] r.pc = "orders" ->
         \* the open orders; their refunds, then the status update
         [db |-> d,
          r |-> [r EXCEPT !.todo = RefundAllStmts(d.orders, MarketLeague)
                                   \o << [op |-> "mkt_w", status |-> "CANCELLED"] >>,
                          !.pc = "respond"]]
    [] r.pc = "respond" ->
         [db |-> d, r |-> [r EXCEPT !.pc = "done", !.result = "ok"]]

(* -------------------------- check-market-expiry ------------------------ *)
\* the request of check-market-expiry, Date.now() being `clock`, in minutes
ExpiryRequest(clock) ==
  [kind |-> "expiry", pc |-> "settings", todo |-> <<>>, tmp |-> 0,
   result |-> "pending", clock |-> clock, timeoutMinutes |-> 0]

\* the sweep taking every market past its deadline, whatever its status
Expired_AnyStatus(d, clock, timeoutMinutes) ==
  /\ d.closes_at # NoClosesAt
  /\ d.closes_at * 60 < clock - timeoutMinutes

\* .eq('status', 'OPEN').lt('closes_at', cutoffTime), cutoffTime being
\* Date.now() - timeoutMinutes * 60 * 1000
Expired(d, clock, timeoutMinutes) ==
  /\ d.status = "OPEN"
  /\ d.closes_at # NoClosesAt
  /\ d.closes_at * 60 < clock - timeoutMinutes

\* a position paid its YES shares by the sweep
ExpiryPayoutStmts_Yes(u, position, leagueId) ==
  IF position.exists /\ position.yes > 0 /\ leagueId # "NONE"
  THEN << [op |-> "bal_r", l |-> leagueId, u |-> u],
          [op |-> "bal_add", l |-> leagueId, u |-> u,
           amt |-> position.yes * 100, why |-> "payout"] >>
  ELSE <<>>

\* "Settle positions -- NO shareholders get 100 tokens per share"
ExpiryPayoutStmts(u, position, leagueId) ==
  IF position.exists /\ position.no > 0 /\ leagueId # "NONE"
  THEN << [op |-> "bal_r", l |-> leagueId, u |-> u],
          [op |-> "bal_add", l |-> leagueId, u |-> u,
           amt |-> position.no * 100, why |-> "payout"] >>
  ELSE <<>>

\* the loop of the sweep over the positions of the market
ExpiryPayoutAllStmts(ps, leagueId) ==
  Flatten([i \in 1..Len(UserSeq) |->
             ExpiryPayoutStmts(UserSeq[i], ps[UserSeq[i]], leagueId)])

\* "Refund unfilled orders" of the sweep, for one order
ExpiryRefundStmts(order, leagueId) ==
  LET costPerShare == IF order.side = "YES" THEN order.price
                      ELSE 100 - order.price
      refund == costPerShare * order.remaining
  IN (IF leagueId # "NONE"
      THEN << [op |-> "bal_r", l |-> leagueId, u |-> order.user],
              [op |-> "bal_add", l |-> leagueId, u |-> order.user,
               amt |-> refund, why |-> "refund", oid |-> order.id] >>
      ELSE <<>>)
     \o << [op |-> "ord_del", id |-> order.id] >>

\* the loop of the sweep over the orders with remaining > 0
ExpiryRefundAllStmts(os, leagueId) ==
  LET openOrders == SelectSeq(os, LAMBDA o : o.remaining > 0)
  IN Flatten([i \in 1..Len(openOrders) |->
                ExpiryRefundStmts(openOrders[i], leagueId)])

\* one statement of check-market-expiry that reads the store
ExpiryStep(d, r) ==
  CASE r.pc = "settings" ->
         \* the voting settings; cutoffTime computed
         [db |-> d,
          r |-> [r EXCEPT !.timeoutMinutes = d.no_resolve_timeout_minutes,
                          !.pc = "query"]]
    [] r.pc = "query" ->
         [db |-> d,
          r |-> IF Expired(d, r.clock, r.timeoutMinutes) THEN Goto(r, "resolve")
                ELSE Reject(r, "NoExpiredMarkets")]
    [] r.pc = "resolve" ->
         \* markets.update({ status: 'RESOLVED', resolved_outcome: 'NO' })
         [db |-> [d EXCEPT !.status = "RESOLVED", !.resolved_outcome = "NO"],
          r |-> Goto(r, "payouts")]
    [] r.pc = "payouts" ->
         [db |-> d,
          r |-> [r EXCEPT !.todo = ExpiryPayoutAllStmts(d.positions, MarketLeague),
                          !.pc = "orders"]]
    [] r.pc = "orders" ->
         [db |-> d,
          r |-> [r EXCEPT !.todo = ExpiryRefundAllStmts(d.orders, MarketLeague),
                          !.pc = "respond"]]
    [] r.pc = "respond" ->
         [db |-> d, r |-> [r EXCEPT !.pc = "done", !.result = "ok"]]

(* ------------------- report outcome (MarketDetailPage) ------------------ *)
ReportRequest(u) ==
  [kind |-> "report", pc |-> "update", todo |-> <<>>, tmp |-> 0,
   result |-> "pending", user |-> u]

\* the update of a report without .eq('status', 'OPEN')
ReportStep_AnyStatus(d, r) ==
  [db |-> [d EXCEPT !.status = "VOTING", !.reported_by = r.user],
   r |-> [r EXCEPT !.pc = "done", !.result = "ok"]]

\* markets.update({ status: 'VOTING', reported_by }).eq('status', 'OPEN')
ReportStep(d, r) ==
  IF d.status = "OPEN"
  THEN [db |-> [d EXCEPT !.status = "VOTING", !.reported_by = r.user],
        r |-> [r EXCEPT !.pc = "done", !.result = "ok"]]
  ELSE [db |-> d, r |-> Reject(r, "AlreadyReported")]

(* ------------------------ cast vote (VotingModal) ---------------------- *)
\* Math.floor(positionValue * stakePercentage / 100)
StakeOf(position) ==
  (((position.yes + position.no) * 100) * StakePercentage) \div 100

VoteRequest(u, vote) ==
  [kind |-> "vote", pc |-> "check_markets", todo |-> <<>>, tmp |-> 0,
   result |-> "pending", user |-> u, vote |-> vote, stakeAmount |-> 0,
   stakeholders |-> {}]

\* a failed insert that gives no stake back
StakeRefundStmts_None(r) == <<>>

\* "Refund stake on error"
StakeRefundStmts(r) ==
  IF r.stakeAmount > 0
  THEN << [op |-> "bal_r", l |-> MarketLeague, u |-> r.user],
          [op |-> "bal_add", l |-> MarketLeague, u |-> r.user,
           amt |-> r.stakeAmount, why |-> "novote"] >>
  ELSE <<>>

\* checkForPendingVotes, then handleVote on what it found
VoteStep(d, r) ==
  CASE r.pc = "check_markets" ->
         [db |-> d,
          r |-> IF d.status = "VOTING" THEN Goto(r, "check_votes")
                ELSE Reject(r, "NoPendingMarket")]
    [] r.pc = "check_votes" ->
         [db |-> d,
          r |-> IF d.votes[r.user].exists THEN Reject(r, "NoPendingMarket")
                ELSE Goto(r, "check_position")]
    [] r.pc = "check_position" ->
         LET positionData == d.positions[r.user]
         IN [db |-> d,
             r |-> IF positionData.exists
                      /\ (positionData.yes > 0 \/ positionData.no > 0)
                   THEN [r EXCEPT !.stakeAmount = StakeOf(positionData),
                                  !.pc = "member"]
                   ELSE Reject(r, "NoPendingMarket")]
    [] r.pc = "member" ->
         \* "Deduct stake from league balance"
         LET memberData == d.balance[MarketLeague][r.user]
         IN [db |-> d,
             r |-> IF r.stakeAmount > 0
                   THEN IF memberData < r.stakeAmount
                        THEN Reject(r, "InsufficientBalance")
                        ELSE [r EXCEPT !.pc = "insert",
                                !.todo = << [op |-> "bal_set", l |-> MarketLeague,
                                             u |-> r.user,
                                             value |-> memberData - r.stakeAmount,
                                             delta |-> 0 - r.stakeAmount] >>]
                   ELSE Goto(r, "insert")]
    [] r.pc = "insert" ->
         \* votes.insert; UNIQUE (market_id, user_id) makes a second one fail,
         \* and the stake is given back
         IF d.votes[r.user].exists
         THEN [db |-> d,
               r |-> [r EXCEPT !.pc = "failed", !.todo = StakeRefundStmts(r)]]
         ELSE [db |-> [d EXCEPT !.votes[r.user] =
                         [exists |-> TRUE, vote |-> r.vote,
                          stake |-> r.stakeAmount],
                                !.hist.staked[r.user] = 0],
               r |-> Goto(r, "positions")]
    [] r.pc = "failed" ->
         [db |-> d, r |-> Reject(r, "VoteFailed")]
    [] r.pc = "positions" ->
         \* "Check if all stakeholders have voted"
         [db |-> d,
          r |-> [r EXCEPT !.stakeholders = Stakeholders(d.positions),
                          !.pc = "allvotes"]]
    [] r.pc = "allvotes" ->
         \* the votes; resolve-market is invoked when all have voted
         LET votedUserIds == {u \in Users : d.votes[u].exists}
             allVoted == r.stakeholders \subseteq votedUserIds
         IN [db |-> d,
             r |-> IF allVoted /\ r.stakeholders # {}
                   THEN [ResolveRequest("NONE", "YES") EXCEPT !.by = r.user]
                   ELSE [r EXCEPT !.pc = "done", !.result = "ok"]]

(* ------------------------------ execution ------------------------------ *)
\* the next statement of request r
Step(d, r) ==
  IF r.todo # <<>> THEN ExecStmt(d, r)
  ELSE CASE r.kind = "place" -> PlaceStep(d, r)
         [] r.kind = "sell" -> SellStep(d, r)
         [] r.kind = "cancelorder" -> CancelOrderStep(d, r)
         [] r.kind = "resolve" -> ResolveStep(d, r)
         [] r.kind = "cancelmarket" -> CancelMarketStep(d, r)
         [] r.kind = "expiry" -> ExpiryStep(d, r)
         [] r.kind = "report" -> ReportStep(d, r)
         [] r.kind = "vote" -> VoteStep(d, r)

\* request r run until it is at `pc` with nothing pending
RECURSIVE RunTo(_, _, _)
RunTo(d, r, pc) ==
  IF r.todo = <<>> /\ r.pc \in {pc, "done"} THEN [db |-> d, r |-> r]
  ELSE LET n == Step(d, r) IN RunTo(n.db, n.r, pc)

\* request r run to completion
Run(d, r) == RunTo(d, r, "done")

Idle == [pc |-> "idle", kind |-> "none", todo |-> <<>>]

NoLast == [req |-> Idle, pre |-> InitDB]

\* the outcome of a handler that ran to completion: the store takes every
\* write the handler made; an accepted request is counted and remembered
\* together with the store it met
Recorded(out) ==
  /\ Commit(out.db)
  /\ UNCHANGED <<now, budget>>
  /\ IF out.r.result = "ok"
     THEN /\ nreq' = nreq + 1
          /\ last' = [req |-> out.r, pre |-> DB]
     ELSE UNCHANGED <<nreq, last>>

Handled(out) == Recorded(out) /\ UNCHANGED req

(* ------------------------------ behaviours ----------------------------- *)
\* the state after construction, `n` requests being allowed
Start(n) ==
  /\ closes_at = InitDB.closes_at
  /\ status = InitDB.status
  /\ resolved_outcome = InitDB.resolved_outcome
  /\ reported_by = InitDB.reported_by
  /\ balance = InitDB.balance
  /\ positions = InitDB.positions
  /\ orders = InitDB.orders
  /\ trades = InitDB.trades
  /\ votes = InitDB.votes
  /\ nextId = InitDB.nextId
  /\ hist = InitDB.hist
  /\ no_resolve_timeout_minutes = InitDB.no_resolve_timeout_minutes
  /\ now = 0
  /\ req = [p \in Procs |-> Idle]
  /\ nreq = 0
  /\ budget = n
  /\ last = NoLast

Init == Start(MaxReqs)

PlaceOrder(u, side, price, quantity) ==
  /\ nreq < budget
  /\ Handled(Run(DB, PlaceRequest(u, side, price, quantity, MarketLeague)))

PlaceSellOrder(u, side, price, quantity) ==
  /\ nreq < budget
  /\ Handled(Run(DB, SellRequest(u, side, price, quantity, MarketLeague)))

CancelOrder(u, id) ==
  /\ nreq < budget
  /\ Handled(Run(DB, CancelOrderRequest(u, id)))

Next ==
  \/ \E u \in Traders, side \in Sides, price \in Prices, quantity \in 1..MaxQty :
       PlaceOrder(u, side, price, quantity)
  \/ \E u \in Traders, side \in Sides, price \in Prices, quantity \in 1..MaxQty :
       PlaceSellOrder(u, side, price, quantity)
  \/ \E u \in Traders, id \in OrderIds : CancelOrder(u, id)

Spec == Init /\ [][Next]_vars

(* ------------------------- the market lifecycle ------------------------ *)
InitLife == Start(MaxLifeReqs)

\* a buy of one unit at the price of its side
BuyOne(u, side) == PlaceOrder(u, side, PriceOf[side], 1)

\* a buy of a lot at the price of its side
BuyLot(u, side) == PlaceOrder(u, side, PriceOf[side], LotSize)

\* an order for two shares, which two orders for one share fill
BuyPair(u, side) == PlaceOrder(u, side, PriceOf[side], 2)

\* a sell of one unit at the price of its side
SellOne(u, side) == PlaceSellOrder(u, side, PriceOf[side], 1)

Report(u) ==
  /\ nreq < budget
  /\ Handled(Run(DB, ReportRequest(u)))

CastVote(u, vote) ==
  /\ nreq < budget
  /\ Handled(Run(DB, VoteRequest(u, vote)))

ResolveMarket(admin, outcome) ==
  /\ nreq < budget
  /\ Handled(Run(DB, ResolveRequest(admin, outcome)))

CancelMarket(admin) ==
  /\ nreq < budget
  /\ Handled(Run(DB, CancelMarketRequest(admin)))

\* Date.now(), in minutes
Clock == now * MinutesPerTick

CheckMarketExpiry ==
  /\ nreq < budget
  /\ Handled(Run(DB, ExpiryRequest(Clock)))

\* handleSaveSettings of the admin page: the timeout is set to v minutes
SaveSettings(v) ==
  /\ nreq < budget
  /\ no_resolve_timeout_minutes' = v
  /\ UNCHANGED <<status, resolved_outcome, reported_by, balance, positions,
                 orders, trades, votes, nextId, hist, closes_at, now, req,
                 nreq, budget, last>>

\* the clock advances
Tick ==
  /\ (now + 1) * MinutesPerTick <= MaxNow * 60
  /\ now' = now + 1
  /\ UNCHANGED <<status, resolved_outcome, reported_by, balance, positions,
                 orders, trades, votes, nextId, hist,
                 closes_at, no_resolve_timeout_minutes, req, nreq, budget, last>>

NextLife ==
  \/ \E u \in Traders, side \in Sides : BuyOne(u, side)
  \/ \E u \in Traders, side \in Sides : SellOne(u, side)
  \/ \E u \in Users : Report(u)
  \/ \E u \in Users, vote \in Sides : CastVote(u, vote)
  \/ \E admin \in Callers, outcome \in Sides : ResolveMarket(admin, outcome)
  \/ \E admin \in Callers \ {"NONE"} : CancelMarket(admin)
  \/ CheckMarketExpiry
  \/ Tick

SpecLife == InitLife /\ [][NextLife]_vars

(* ------------------------- trading until the sweep --------------------- *)
\* buys of one unit and of a lot, sells, and the sweep as the clock runs
NextSweep ==
  \/ \E u \in Traders, side \in Sides : BuyOne(u, side)
  \/ \E u \in Traders, side \in Sides : BuyLot(u, side)
  \/ \E u \in Traders, side \in Sides : SellOne(u, side)
  \/ CheckMarketExpiry
  \/ Tick

InitSweep == Start(MaxSweepReqs)

SpecSweep == InitSweep /\ [][NextSweep]_vars

(* ------------------------ the sweep and the settings ------------------- *)
\* the sweep on a market of any status, under any timeout an admin sets
NextGrace ==
  \/ \E u \in Traders, side \in Sides : BuyOne(u, side)
  \/ \E u \in Users : Report(u)
  \/ CancelMarket("adm")
  \/ CheckMarketExpiry
  \/ \E v \in TimeoutChoices : SaveSettings(v)
  \/ Tick

\* the market was created with a deadline or without one
InitGrace ==
  \E c \in {ClosesAt, NoClosesAt} :
    /\ closes_at = c
    /\ status = InitDB.status
    /\ resolved_outcome = InitDB.resolved_outcome
    /\ reported_by = InitDB.reported_by
    /\ balance = InitDB.balance
    /\ positions = InitDB.positions
    /\ orders = InitDB.orders
    /\ trades = InitDB.trades
    /\ votes = InitDB.votes
    /\ nextId = InitDB.nextId
    /\ hist = InitDB.hist
    /\ no_resolve_timeout_minutes = InitDB.no_resolve_timeout_minutes
    /\ now = 0
    /\ req = [p \in Procs |-> Idle]
    /\ nreq = 0
    /\ budget = MaxGraceReqs
    /\ last = [NoLast EXCEPT !.pre.closes_at = c]

SpecGrace == InitGrace /\ [][NextGrace]_vars

(* ------------------------- pages and clicks ---------------------------- *)
InitClient == Start(MaxClientReqs)

\* what fetchData hands to the TradingPanel of user u
Loaded(d, u) == RunTo(d, CancelOrderRequest(u, 0), "click").r

\* fetchData of the page of user u (on load, and every 3 seconds)
LoadPage(u) ==
  /\ req' = [req EXCEPT ![PageOf[u]] = Loaded(DB, u)]
  /\ UNCHANGED <<status, resolved_outcome, reported_by, balance, positions,
                 orders, trades, votes, nextId, hist,
                 closes_at, no_resolve_timeout_minutes, now, nreq, budget, last>>

\* a click on Cancel for order `id` on the page of user u as it was loaded;
\* onOrderPlaced loads the page again
ClickCancel(u, id) ==
  /\ nreq < budget
  /\ req[PageOf[u]].pc = "click"
  /\ LET out == Run(DB, [req[PageOf[u]] EXCEPT !.id = id])
     IN /\ Recorded(out)
        /\ req' = [req EXCEPT ![PageOf[u]] =
                     IF out.r.result = "ok" THEN Loaded(out.db, u) ELSE @]

NextClient ==
  \/ \E u \in Traders, side \in Sides : BuyOne(u, side)
  \/ \E u \in Traders, side \in Sides : SellOne(u, side)
  \/ \E u \in Traders : LoadPage(u)
  \/ \E u \in Traders, id \in OrderIds : ClickCancel(u, id)

SpecClient == InitClient /\ [][NextClient]_vars

(* ----------------------- interleaved statements ------------------------ *)
InitConc == Start(MaxConcReqs)

\* process p takes request r
Submit(p, r) ==
  /\ nreq < budget
  /\ req[p].pc = "idle"
  /\ \A q \in Procs : q < p => req[q].pc # "idle"
  \* the handler starts on the request with no response written yet
  /\ req' = [req EXCEPT ![p] = [r EXCEPT !.result = "pending"]]
  /\ nreq' = nreq + 1
  /\ UNCHANGED <<status, resolved_outcome, reported_by, balance, positions,
                 orders, trades, votes, nextId, hist,
                 closes_at, no_resolve_timeout_minutes, now, budget, last>>

SubmitPlaceOrder(p, u, side) ==
  Submit(p, PlaceRequest(u, side, PriceOf[side], 1, MarketLeague))

SubmitSellOrder(p, u, side) ==
  Submit(p, SellRequest(u, side, PriceOf[side], 1, MarketLeague))

SubmitResolve(p, admin, outcome) == Submit(p, ResolveRequest(admin, outcome))

SubmitCancelMarket(p, admin) == Submit(p, CancelMarketRequest(admin))

SubmitReport(p, u) == Submit(p, ReportRequest(u))

\* process p issues the next statement of its request
Perform(p) ==
  /\ req[p].pc \notin {"idle", "done"}
  /\ LET out == Step(DB, req[p])
     IN /\ Commit(out.db)
        /\ req' = [req EXCEPT ![p] = out.r]
  /\ UNCHANGED <<now, nreq, budget, last>>

\* process p answers its request
Respond(p) ==
  /\ req[p].pc = "done"
  /\ req' = [req EXCEPT ![p] = Idle]
  /\ UNCHANGED <<status, resolved_outcome, reported_by, balance, positions,
                 orders, trades, votes, nextId, hist,
                 closes_at, no_resolve_timeout_minutes, now, nreq, budget, last>>

NextConc ==
  \/ \E p \in Procs, u \in Traders, side \in Sides : SubmitPlaceOrder(p, u, side)
  \/ \E p \in Procs, u \in Traders, side \in Sides : SubmitSellOrder(p, u, side)
  \/ \E p \in Procs, outcome \in Sides : SubmitResolve(p, "adm", outcome)
  \/ \E p \in Procs : SubmitCancelMarket(p, "adm")
  \/ \E p \in Procs : Perform(p)
  \/ \E p \in Procs : Respond(p)

SpecConc == InitConc /\ [][NextConc]_vars

(* -------------------------- reports that race -------------------------- *)
\* reports, trades and the requests of an admin, their statements interleaved
NextRace ==
  \/ \E p \in Procs, u \in Traders : SubmitReport(p, u)
  \/ \E p \in Procs, u \in Traders, side \in Sides : SubmitPlaceOrder(p, u, side)
  \/ \E p \in Procs, outcome \in Sides : SubmitResolve(p, "adm", outcome)
  \/ \E p \in Procs : SubmitCancelMarket(p, "adm")
  \/ \E p \in Procs : Perform(p)
  \/ \E p \in Procs : Respond(p)

InitRace == Start(MaxRaceReqs)

SpecRace == InitRace /\ [][NextRace]_vars

(* ----------------------- votes of three holders ----------------------- *)
\* the orders that leave a and adm one YES share each and b two NO shares,
\* then the reports, the votes and the tallies on that market
NextVote ==
  \/ \E u \in {"a", "adm"} : BuyOne(u, "YES")
  \/ BuyPair("b", "NO")
  \/ \E u \in Users : Report(u)
  \/ \E u \in Users, vote \in Sides : CastVote(u, vote)
  \/ \E outcome \in Sides : ResolveMarket("NONE", outcome)

InitVote == Start(MaxVoteReqs)

SpecVote == InitVote /\ [][NextVote]_vars

(* ------------------------- writes that fail --------------------------- *)
\* place-order for one unit; `fails` when the store does not take the write
\* of the escrow (the update of token_balance)
TryPlaceOrder(u, side, fails) ==
  /\ nreq < budget
  /\ Handled(Run(DB, [PlaceRequest(u, side, PriceOf[side], 1, MarketLeague)
                       EXCEPT !.escrowFails = fails]))

\* sell-position for one unit; `fails` when the store does not take the
\* write of the escrow (the update of the shares)
TrySellOrder(u, side, fails) ==
  /\ nreq < budget
  /\ Handled(Run(DB, [SellRequest(u, side, PriceOf[side], 1, MarketLeague)
                       EXCEPT !.escrowFails = fails]))

NextFault ==
  \/ \E u \in Traders, side \in Sides, fails \in BOOLEAN :
       TryPlaceOrder(u, side, fails)
  \/ \E u \in Traders, side \in Sides, fails \in BOOLEAN :
       TrySellOrder(u, side, fails)

InitFault == Start(MaxFaultReqs)

SpecFault == InitFault /\ [][NextFault]_vars

(* ------------------------ requests of any input ----------------------- *)
\* prices and quantities a request body may carry: the functions are called
\* over HTTP, and the body is whatever the caller sends
InputPrices == {0 - 1, 0, 40, 60, 100}
InputQuantities == {0 - 1, 0, 1}

NextInput ==
  \/ \E u \in Traders, side \in Sides, price \in InputPrices,
        quantity \in InputQuantities : PlaceOrder(u, side, price, quantity)
  \/ \E u \in Traders, side \in Sides, price \in InputPrices,
        quantity \in InputQuantities : PlaceSellOrder(u, side, price, quantity)

InitInput == Start(MaxInputReqs)

SpecInput == InitInput /\ [][NextInput]_vars

(* --------------------------- votes that race --------------------------- *)
SubmitVote(p, u, vote) == Submit(p, VoteRequest(u, vote))

\* trades and a report, then votes whose statements interleave
NextPoll ==
  \/ \E u \in Traders, side \in Sides : BuyOne(u, side)
  \/ \E u \in Traders : Report(u)
  \/ \E p \in Procs, u \in Traders, vote \in Sides : SubmitVote(p, u, vote)
  \/ \E p \in Procs : Perform(p)
  \/ \E p \in Procs : Respond(p)

InitPoll == Start(MaxPollReqs)

SpecPoll == InitPoll /\ [][NextPoll]_vars

(* --------------------------- the voting modal -------------------------- *)
\* pendingMarket and stakeAmount of the modal of user u, as
\* checkForPendingVotes sets them from store d
Pending(d, u) == RunTo(d, VoteRequest(u, "YES"), "member").r

\* checkForPendingVotes of modal p, open for user u (on load, and every 3
\* seconds)
CheckForPendingVotes(p, u) ==
  /\ req' = [req EXCEPT ![p] = Pending(DB, u)]
  /\ UNCHANGED <<status, resolved_outcome, reported_by, balance, positions,
                 orders, trades, votes, nextId, hist,
                 closes_at, no_resolve_timeout_minutes, now, nreq, budget, last>>

\* a click on a vote button of modal p, on the pendingMarket and stakeAmount
\* it holds; a vote that went through checks for pending votes again.  Every
\* click is counted and remembered, the ones that end in an error too.
HandleVote(p, vote) ==
  /\ nreq < budget
  /\ req[p].kind = "vote" /\ req[p].pc = "member"
  /\ LET out == Run(DB, [req[p] EXCEPT !.vote = vote])
     IN /\ Commit(out.db)
        /\ nreq' = nreq + 1
        /\ last' = [req |-> out.r, pre |-> DB]
        /\ req' = [req EXCEPT ![p] =
                     IF out.r.result = "ok" THEN Pending(out.db, req[p].user)
                     ELSE @]
  /\ UNCHANGED <<now, budget>>

NextBallot ==
  \/ \E u \in Traders, side \in Sides : BuyOne(u, side)
  \/ \E u \in Traders : Report(u)
  \/ \E p \in Procs, u \in Traders : CheckForPendingVotes(p, u)
  \/ \E p \in Procs, vote \in Sides : HandleVote(p, vote)
  \/ \E outcome \in Sides : ResolveMarket("adm", outcome)
  \/ CancelMarket("adm")

InitBallot == Start(MaxBallotReqs)

SpecBallot == InitBallot /\ [][NextBallot]_vars

(* ------------------------- purses that run low ------------------------- *)
\* every kind of request on a market whose traders an admin left with
\* PurseBalance tokens (set_balance), the statements of the requests
\* interleaved; the requests come before the deadline of the market or
\* after the sweep is due
SubmitExpiry(p) == Submit(p, ExpiryRequest(Clock))

SubmitCancelOrder(p, u, id) == Submit(p, CancelOrderRequest(u, id))

NextPurse ==
  \/ \E p \in Procs, u \in Traders, side \in Sides : SubmitPlaceOrder(p, u, side)
  \/ \E p \in Procs, u \in Traders, side \in Sides : SubmitSellOrder(p, u, side)
  \/ \E p \in Procs, u \in Traders, id \in 2..MaxPurseReqs :
       SubmitCancelOrder(p, u, id)
  \/ \E p \in Procs, u \in Traders : SubmitReport(p, u)
  \/ \E p \in Procs, u \in Traders, vote \in Sides : SubmitVote(p, u, vote)
  \/ \E p \in Procs, outcome \in Sides : SubmitResolve(p, "adm", outcome)
  \/ \E p \in Procs : SubmitCancelMarket(p, "adm")
  \/ \E p \in Procs : SubmitExpiry(p)
  \/ \E p \in Procs : Perform(p)
  \/ \E p \in Procs : Respond(p)

\* the store after a bought one YES at 60 and b one NO at 40, so that one
\* pair was minted, and set_balance then left each trader PurseBalance tokens
PurseDB ==
  [InitDB EXCEPT
     !.balance[MarketLeague] =
        [u \in Users |-> IF u \in Traders THEN PurseBalance ELSE @[u]],
     !.positions = [@ EXCEPT !["a"] = [exists |-> TRUE, yes |-> 1, no |-> 0],
                             !["b"] = [exists |-> TRUE, yes |-> 0, no |-> 1]],
     !.trades = << [yes |-> "a", no |-> "b", price |-> 60, qty |-> 1,
                    mint |-> TRUE] >>,
     !.nextId = 2,
     !.hist.applied[MarketLeague] = [@ EXCEPT !["a"] = 0 - 60, !["b"] = 0 - 60],
     !.hist.filled[1] = 1,
     !.hist.rested[1] = 1]

InitPurse ==
  /\ closes_at = PurseDB.closes_at
  /\ status = PurseDB.status
  /\ resolved_outcome = PurseDB.resolved_outcome
  /\ reported_by = PurseDB.reported_by
  /\ balance = PurseDB.balance
  /\ positions = PurseDB.positions
  /\ orders = PurseDB.orders
  /\ trades = PurseDB.trades
  /\ votes = PurseDB.votes
  /\ nextId = PurseDB.nextId
  /\ hist = PurseDB.hist
  /\ no_resolve_timeout_minutes = PurseDB.no_resolve_timeout_minutes
  /\ now \in {0, (MaxNow * 60) \div MinutesPerTick}
  /\ req = [p \in Procs |-> Idle]
  /\ nreq = 0
  /\ budget = MaxPurseReqs
  /\ last = [NoLast EXCEPT !.pre = PurseDB]

SpecPurse == InitPurse /\ [][NextPurse]_vars

(* ---------------------- requests that name a league -------------------- *)
\* const effectiveLeagueId = league_id || market.league_id, league_id being
\* what the body of the request carries ("NONE" when it carries none)
EffectiveLeagueId(league_id) ==
  IF league_id # "NONE" THEN league_id ELSE MarketLeague

\* place-order for one unit with league_id in the body
PlaceOrderIn(u, side, league_id) ==
  /\ nreq < budget
  /\ Handled(Run(DB, PlaceRequest(u, side, PriceOf[side], 1,
                                  EffectiveLeagueId(league_id))))

\* sell-position for one unit with league_id in the body
SellOrderIn(u, side, league_id) ==
  /\ nreq < budget
  /\ Handled(Run(DB, SellRequest(u, side, PriceOf[side], 1,
                                 EffectiveLeagueId(league_id))))

NextLeague ==
  \/ \E u \in Traders, side \in Sides, league_id \in Leagues \cup {"NONE"} :
       PlaceOrderIn(u, side, league_id)
  \/ \E u \in Traders, side \in Sides, league_id \in Leagues \cup {"NONE"} :
       SellOrderIn(u, side, league_id)
  \/ \E outcome \in Sides : ResolveMarket("adm", outcome)
  \/ CancelMarket("adm")

InitLeague == Start(MaxLeagueReqs)

SpecLeague == InitLeague /\ [][NextLeague]_vars

(* ------------------------- a vote left to itself ----------------------- *)
\* a click on a vote button of the modal of user u, which the modal offers
\* for as long as it finds a pending vote
VoteInModal(u, vote) == Handled(Run(DB, VoteRequest(u, vote)))

\* buys and reports, and the votes of the traders; no admin acts and the
\* sweep leaves a market in VOTING alone
NextTurnout ==
  \/ \E u \in Traders, side \in Sides : BuyOne(u, side)
  \/ \E u \in Traders : Report(u)
  \/ \E u \in Traders, vote \in Sides : VoteInModal(u, vote)

InitTurnout == Start(MaxTurnoutReqs)

\* every trader who can vote does vote
SpecTurnout ==
  /\ InitTurnout
  /\ [][NextTurnout]_vars
  /\ \A u \in Traders : WF_vars(\E vote \in Sides : VoteInModal(u, vote))

(* ------------------------------ the tally ----------------------------- *)
\* the tally of resolve-market as a function of the settings row and of the
\* votes it read: y / n non-admin and a / b admin voters of YES / NO
TallyRequest(settings, y, n, a, b) ==
  [kind |-> "tally", pc |-> "votes", todo |-> <<>>,
   yes_bloc_weight |-> settings[1], no_bloc_weight |-> settings[2],
   admin_weight |-> settings[3], y |-> y, n |-> n, a |-> a, b |-> b,
   verdict |-> "NONE"]

Tally ==
  /\ req[1].kind = "tally"
  /\ req[1].pc = "votes"
  /\ req' = [req EXCEPT ![1].pc = "done",
                        ![1].verdict =
                          IF TallyRejected(req[1].yes_bloc_weight,
                                           req[1].no_bloc_weight,
                                           req[1].admin_weight,
                                           req[1].y, req[1].n,
                                           req[1].a, req[1].b)
                          THEN "REJECTED" ELSE "YES"]
  /\ UNCHANGED <<status, resolved_outcome, reported_by, balance, positions,
                 orders, trades, votes, nextId, hist, closes_at,
                 no_resolve_timeout_minutes, now, nreq, budget, last>>

NextTally == Tally

InitTally ==
  \E settings \in TallySettings, y \in 0..MaxBlocVoters, n \in 0..MaxBlocVoters,
     a \in 0..MaxAdminVoters, b \in 0..MaxAdminVoters :
    /\ closes_at = InitDB.closes_at
    /\ status = InitDB.status
    /\ resolved_outcome = InitDB.resolved_outcome
    /\ reported_by = InitDB.reported_by
    /\ balance = InitDB.balance
    /\ positions = InitDB.positions
    /\ orders = InitDB.orders
    /\ trades = InitDB.trades
    /\ votes = InitDB.votes
    /\ nextId = InitDB.nextId
    /\ hist = InitDB.hist
    /\ no_resolve_timeout_minutes = InitDB.no_resolve_timeout_minutes
    /\ now = 0
    /\ req = [p \in Procs |-> IF p = 1 THEN TallyRequest(settings, y, n, a, b)
                               ELSE Idle]
    /\ nreq = 0
    /\ budget = 0
    /\ last = NoLast

SpecTally == InitTally /\ [][NextTally]_vars

(* ------------------------- reading a finished request ------------------ *)
\* the remaining quantity of order `id` now (0 when the row is gone)
RemainingNow(id) ==
  LET found == SelectSeq(orders, LAMBDA o : o.id = id)
  IN IF found = <<>> THEN 0 ELSE found[1].remaining

\* what the last request filled of an order o that rested before it
FillOf(o) == o.remaining - RemainingNow(o.id)

LastPlace == last.req.kind = "place"

\* the trades the last request recorded
NewTrades == SubSeq(trades, Len(last.pre.trades) + 1, Len(trades))

\* shares of `side` outstanding in store d: held in positions or escrowed in
\* resting sell orders
Outstanding(d, side) ==
  SumSeq([i \in 1..Len(UserSeq) |-> Shares(d.positions[UserSeq[i]], side)])
  + SumSeq([i \in 1..Len(d.orders) |->
              IF d.orders[i].sell /\ d.orders[i].side = side
              THEN d.orders[i].remaining ELSE 0])

\* the total quantity of the mint trades
Minted == SumSeq([i \in 1..Len(trades) |->
                    IF trades[i].mint THEN trades[i].qty ELSE 0])

AllIdle == \A p \in Procs : req[p].pc = "idle"

(* -------------------------------- C1 ----------------------------------- *)
\* C1: however the statements of settlement requests on the market
\* interleave, the winning shares of a position are paid at most once and a
\* resting order is refunded at most once.
C1_SettledOnce ==
  /\ \A u \in Users : hist.paid[u] <= 1
  /\ \A i \in OrderIds : hist.refunded[i] <= 1

(* -------------------------------- C2 ----------------------------------- *)
\* C2: on a market that is RESOLVED, an invocation of resolve-market (admin
\* or not, either outcome) is rejected and changes no league balance, no
\* order and not resolved_outcome.
C2_ResolvedIsFinal ==
  [][(status = "RESOLVED"
      /\ \E admin \in Callers, outcome \in Sides : ResolveMarket(admin, outcome))
     => /\ nreq' = nreq
        /\ balance' = balance
        /\ orders' = orders
        /\ resolved_outcome' = resolved_outcome]_vars

(* -------------------------------- C3 ----------------------------------- *)
\* C3: after any sequence of buys, sells and order cancellations the YES
\* shares outstanding (in positions and in resting YES sell orders) equal
\* the NO shares outstanding, and both equal the quantity of the mint trades.
C3_ShareConservation ==
  /\ Outstanding(DB, "YES") = Minted
  /\ Outstanding(DB, "NO") = Minted

(* -------------------------------- C4 ----------------------------------- *)
\* C4: a successful place-order of a non-admin user for quantity Q at price P
\* leaves that user's league balance lower by exactly P*Q (side YES) or
\* (100-P)*Q (side NO), whatever part of the order matched or rests.
C4_EscrowDebit ==
  (LastPlace /\ last.req.user \notin Admins) =>
    LET r == last.req
        cost == IF r.side = "YES" THEN r.price * r.qty
                ELSE (100 - r.price) * r.qty
    IN balance[r.league][r.user] = last.pre.balance[r.league][r.user] - cost

\* a NO order of a non-admin user that was matched in part and rests in part
C4_Witness ==
  /\ LastPlace /\ last.req.user \notin Admins /\ last.req.side = "NO"
  /\ last.req.matches # <<>> /\ last.req.remaining > 0

(* -------------------------------- C5 ----------------------------------- *)
\* C5: however the statements of place-order and sell-position requests
\* interleave, the quantity filled against a resting order never exceeds the
\* quantity it rested with.
C5_NoOverfill == \A i \in OrderIds : hist.filled[i] <= hist.rested[i]

(* -------------------------------- C6 ----------------------------------- *)
\* C6: when the interleaved requests have finished, every league balance is
\* the initial balance plus the debits and credits the requests applied.
C6_NoLostUpdate ==
  AllIdle => \A l \in Leagues, u \in Users :
               balance[l][u] = InitialBalance + hist.applied[l][u]

(* -------------------------------- C7 ----------------------------------- *)
StatusMoves ==
  { <<"OPEN", "VOTING">>, <<"VOTING", "OPEN">>, <<"VOTING", "RESOLVED">>,
    <<"OPEN", "RESOLVED">>, <<"OPEN", "CANCELLED">>, <<"VOTING", "CANCELLED">> }

\* C7: the status of the market only moves OPEN->VOTING, VOTING->OPEN,
\* VOTING->RESOLVED, OPEN->RESOLVED, OPEN->CANCELLED or VOTING->CANCELLED;
\* RESOLVED and CANCELLED are never left.
C7_StatusMoves ==
  [][status' # status => <<status, status'>> \in StatusMoves]_vars

(* -------------------------------- C8 ----------------------------------- *)
\* the sequence of C8 for the last request: the resting sell orders of its
\* side at its price, oldest first, then the resting buy orders of the
\* opposite side at the complementary price, oldest first; `own` tells
\* whether the orders of the requesting user are in it
C8_Sequence(own) ==
  LET r == last.req
      os == last.pre.orders
  IN SelectSeq(os, LAMBDA o : /\ o.sell /\ o.side = r.side /\ o.price = r.price
                              /\ o.remaining > 0 /\ (own \/ o.user # r.user))
     \o SelectSeq(os, LAMBDA o : /\ ~o.sell /\ o.side # r.side
                                 /\ o.price = 100 - r.price
                                 /\ o.remaining > 0 /\ (own \/ o.user # r.user))

\* fills follow the sequence c, and nothing outside c is filled
C8_FollowsSequence(c) ==
  /\ \A i \in 1..Len(c) :
       FillOf(c[i]) > 0 => \A j \in 1..(i - 1) : FillOf(c[j]) = c[j].remaining
  /\ \A k \in 1..Len(last.pre.orders) :
       LET o == last.pre.orders[k] IN
       (\A i \in 1..Len(c) : c[i].id # o.id) => FillOf(o) = 0
  /\ SumSeq([i \in 1..Len(c) |-> FillOf(c[i])]) <= last.req.qty

C9_Found(sell, side, price) ==
  SelectSeq(last.pre.orders,
            LAMBDA o : /\ o.sell = sell /\ o.side = side /\ o.price = price
                       /\ o.remaining > 0 /\ o.user # last.req.user)

\* the buy found no sell of its side at its price and one buy of the
\* opposite side at the complementary price
C9_Case ==
  /\ LastPlace
  /\ C9_Found(TRUE, last.req.side, last.req.price) = <<>>
  /\ Len(C9_Found(FALSE, Opposite(last.req.side), 100 - last.req.price)) = 1

\* C9: a buy of side S at price P that finds no resting sell of S at P but a
\* resting buy of the opposite side at 100-P fills f = min(quantity, resting
\* remainder), records exactly one trade of quantity f at the YES-side price
\* (P if S is YES, else 100-P), adds f shares of S to the buyer's position and
\* f shares of the opposite side to the resting owner's position.
C9_SyntheticMint ==
  C9_Case =>
    LET r == last.req
        m == C9_Found(FALSE, Opposite(r.side), 100 - r.price)[1]
        f == IF r.qty < m.remaining THEN r.qty ELSE m.remaining
        yesPrice == IF r.side = "YES" THEN r.price ELSE 100 - r.price
    IN /\ FillOf(m) = f
       /\ Len(NewTrades) = 1
       /\ NewTrades[1].qty = f
       /\ NewTrades[1].price = yesPrice
       /\ NewTrades[1].yes = (IF r.side = "YES" THEN r.user ELSE m.user)
       /\ NewTrades[1].no = (IF r.side = "NO" THEN r.user ELSE m.user)
       /\ Shares(positions[r.user], r.side)
            = Shares(last.pre.positions[r.user], r.side) + f
       /\ Shares(positions[m.user], Opposite(r.side))
            = Shares(last.pre.positions[m.user], Opposite(r.side)) + f

\* a NO buy at 60 filled against a larger resting YES buy at 40
C9_Witness ==
  /\ C9_Case /\ last.req.side = "NO" /\ last.req.price = 60
  /\ C9_Found(FALSE, "YES", 40)[1].remaining > last.req.qty

(* -------------------------------- C10 ---------------------------------- *)
\* user B bought q of side S at price P while the oldest resting sell order
\* of S at P another user A had kept r >= q
C10_Case ==
  /\ LastPlace
  /\ C9_Found(TRUE, last.req.side, last.req.price) # <<>>
  /\ C9_Found(TRUE, last.req.side, last.req.price)[1].remaining >= last.req.qty

\* C10: then exactly one trade of quantity q at price P is recorded, A's
\* order keeps r - q (and is deleted at 0), B's position gains q shares of S,
\* A's league balance gains q*P (S = YES) or q*(100-P) (S = NO), and no share
\* is created.
C10_DirectSale ==
  C10_Case =>
    LET r == last.req
        o == C9_Found(TRUE, r.side, r.price)[1]
        gain == IF r.side = "YES" THEN r.qty * r.price
                ELSE r.qty * (100 - r.price)
    IN /\ Len(NewTrades) = 1
       /\ NewTrades[1].qty = r.qty
       /\ NewTrades[1].price = r.price
       /\ RemainingNow(o.id) = o.remaining - r.qty
       /\ (o.remaining = r.qty =>
             \A i \in 1..Len(orders) : orders[i].id # o.id)
       /\ Shares(positions[r.user], r.side)
            = Shares(last.pre.positions[r.user], r.side) + r.qty
       /\ balance[MarketLeague][o.user]
            = last.pre.balance[MarketLeague][o.user] + gain
       /\ Outstanding(DB, "YES") = Outstanding(last.pre, "YES")
       /\ Outstanding(DB, "NO") = Outstanding(last.pre, "NO")

\* a NO sell order of 2 at price 40 bought in part
C10_Witness ==
  /\ C10_Case /\ last.req.side = "NO" /\ last.req.price = 40
  /\ last.req.qty = 1
  /\ C9_Found(TRUE, "NO", 40)[1].remaining = 2

(* -------------------------------- C11 ---------------------------------- *)
LastSell == last.req.kind = "sell"

\* the resting buy orders of the side and price of the last request owned by
\* other users, oldest first
C11_Candidates ==
  SelectSeq(last.pre.orders,
            LAMBDA o : /\ ~o.sell /\ o.side = last.req.side
                       /\ o.price = last.req.price /\ o.remaining > 0
                       /\ o.user # last.req.user)

\* what the last request filled of the orders of user u among sequence c
C11_FilledOf(c, u) ==
  SumSeq([i \in 1..Len(c) |-> IF c[i].user = u THEN FillOf(c[i]) ELSE 0])

C12_Candidates == IF LastPlace THEN C8_Sequence(FALSE) ELSE C11_Candidates

\* what is left of the incoming quantity when candidate i of c is reached
C12_LeftAt(c, i) ==
  LET before == SumSeq([j \in 1..(i - 1) |-> c[j].remaining])
  IN IF before >= last.req.qty THEN 0 ELSE last.req.qty - before

\* the rows the last request added to orders
C12_NewOrders == SelectSeq(orders, LAMBDA o : o.id >= last.pre.nextId)

\* C12: after a successful buy or sell of quantity Q each candidate is filled
\* min(what is left of Q, its remainder); the fills and the reported
\* remaining add up to Q; a candidate filled completely has no row any more
\* and one filled in part keeps a positive remainder lowered by the fill;
\* when the reported remaining is positive exactly one order is added, with
\* that remainder (a buy order for a buy, a sell order for a sell), else
\* none; and no order row has remaining_quantity 0.
C12_FillAndRest ==
  /\ \A k \in 1..Len(orders) : orders[k].remaining > 0
  /\ (LastPlace \/ LastSell) =>
       LET r == last.req
           c == C12_Candidates
       IN /\ \A i \in 1..Len(c) :
               LET f == Min(C12_LeftAt(c, i), c[i].remaining)
                   rows == SelectSeq(orders, LAMBDA o : o.id = c[i].id)
               IN /\ FillOf(c[i]) = f
                  /\ f = c[i].remaining => rows = <<>>
                  /\ f < c[i].remaining =>
                       /\ Len(rows) = 1
                       /\ rows[1].remaining = c[i].remaining - f
          /\ Len(r.matches) = Cardinality({i \in 1..Len(c) : FillOf(c[i]) > 0})
          /\ \A i \in 1..Len(r.matches) :
               r.matches[i].fillQuantity = FillOf(c[i])
          /\ SumSeq([i \in 1..Len(c) |-> FillOf(c[i])]) + r.remaining = r.qty
          /\ r.remaining >= 0
          /\ Len(C12_NewOrders) = (IF r.remaining > 0 THEN 1 ELSE 0)
          /\ \A k \in 1..Len(C12_NewOrders) :
               LET o == C12_NewOrders[k]
               IN /\ o.remaining = r.remaining /\ o.quantity = r.qty
                  /\ o.sell = LastSell /\ o.user = r.user
                  /\ o.side = r.side /\ o.price = r.price

\* a request that filled its first candidate completely and its second one
\* in part
C12_Witness ==
  /\ (LastPlace \/ LastSell)
  /\ Len(C12_Candidates) >= 2
  /\ FillOf(C12_Candidates[1]) = C12_Candidates[1].remaining
  /\ FillOf(C12_Candidates[2]) > 0
  /\ FillOf(C12_Candidates[2]) < C12_Candidates[2].remaining

(* -------------------------------- C13 ---------------------------------- *)
\* the outcome the last request settled the market with, "NONE" when it did
\* not settle it
C13_Outcome ==
  CASE last.req.kind = "expiry" -> "NO"
    [] last.req.kind = "resolve" /\ last.req.verdict \in Sides -> last.req.verdict
    [] OTHER -> "NONE"

C13_Settled == C13_Outcome \in Sides

\* the escrowed cost of the orders of user u that rested in store d
C13_Escrow(d, u) ==
  SumSeq([i \in 1..Len(d.orders) |->
            IF d.orders[i].user = u
            THEN (IF d.orders[i].side = "YES" THEN d.orders[i].price
                  ELSE 100 - d.orders[i].price) * d.orders[i].remaining
            ELSE 0])

\* what the stakes changed of the balance of u in a settlement by vote
\* consensus: the YES voters get theirs back, and the voter whose vote
\* started the tally paid theirs in the same request
C13_Stakes(u) ==
  IF last.req.kind = "resolve" /\ last.req.admin = "NONE"
  THEN (IF votes[u].exists /\ votes[u].vote = "YES" THEN votes[u].stake ELSE 0)
       - (IF last.req.by = u THEN votes[u].stake ELSE 0)
  ELSE 0

\* C13: a settlement with outcome O (force-resolve, vote consensus, expiry)
\* credits every holder 100 tokens per share of side O and nothing for the
\* other side, credits every owner of a resting order remaining * price (YES
\* order) or remaining * (100 - price) (NO order), and leaves no resting order.
C13_SettlementPayout ==
  C13_Settled =>
    /\ status = "RESOLVED" /\ resolved_outcome = C13_Outcome
    /\ orders = <<>>
    /\ \A u \in Users :
         balance[MarketLeague][u]
           = last.pre.balance[MarketLeague][u]
             + 100 * Shares(last.pre.positions[u], C13_Outcome)
             + C13_Escrow(last.pre, u) + C13_Stakes(u)

\* a settlement met a holder of winning shares, a holder of losing shares and
\* a resting NO order
C13_Witness ==
  /\ C13_Settled
  /\ \E u \in Users : Shares(last.pre.positions[u], C13_Outcome) > 0
  /\ \E u \in Users : Shares(last.pre.positions[u], Opposite(C13_Outcome)) > 0
  /\ \E k \in 1..Len(last.pre.orders) :
       last.pre.orders[k].side = "NO" /\ last.pre.orders[k].remaining > 0

(* -------------------------------- C14 ---------------------------------- *)
LastCancelMarket == last.req.kind = "cancelmarket"

\* C14: a cancel-market by an admin, accepted on an OPEN or VOTING market
\* only, sets the status CANCELLED, credits the owner of each resting order
\* its escrowed cost (price per remaining unit of a YES order, 100 - price of
\* a NO order), leaves no resting order, credits nothing else, pays no
\* position and leaves yes_shares and no_shares of every position as they
\* were.
C14_CancelMarket ==
  LastCancelMarket =>
    /\ last.req.admin \in Admins
    /\ last.pre.status \in {"OPEN", "VOTING"}
    /\ status = "CANCELLED"
    /\ orders = <<>>
    /\ positions = last.pre.positions
    /\ hist.paid = last.pre.hist.paid
    /\ \A u \in Users :
         balance[MarketLeague][u]
           = last.pre.balance[MarketLeague][u] + C13_Escrow(last.pre, u)
    /\ \A l \in Leagues \ {MarketLeague} : balance[l] = last.pre.balance[l]

\* a market in VOTING with a holder of shares and a resting NO order was
\* cancelled
C14_Witness ==
  /\ LastCancelMarket
  /\ last.pre.status = "VOTING"
  /\ \E u \in Users : last.pre.positions[u].yes + last.pre.positions[u].no > 0
  /\ \E k \in 1..Len(last.pre.orders) :
       last.pre.orders[k].side = "NO" /\ last.pre.orders[k].remaining > 0

(* -------------------------------- C15 ---------------------------------- *)
LastExpiry == last.req.kind = "expiry"

\* the store an admin force-resolve with outcome NO makes of the store the
\* last request met
C15_ForcedNo == Run(last.pre, ResolveRequest("adm", "NO")).db

\* C15: the expiry sweep acts on an OPEN market past its deadline and grace
\* only, and leaves exactly the store an admin force-resolve with outcome NO
\* makes of the same store: status RESOLVED, resolved_outcome NO, every
\* holder credited 100 tokens per NO share and nothing per YES share, every
\* resting order refunded and deleted.
C15_ExpiryAsForceNo ==
  LastExpiry =>
    /\ last.pre.status = "OPEN"
    /\ status = C15_ForcedNo.status /\ status = "RESOLVED"
    /\ resolved_outcome = C15_ForcedNo.resolved_outcome
    /\ resolved_outcome = "NO"
    /\ reported_by = C15_ForcedNo.reported_by
    /\ balance = C15_ForcedNo.balance
    /\ positions = C15_ForcedNo.positions
    /\ orders = C15_ForcedNo.orders /\ orders = <<>>
    /\ trades = C15_ForcedNo.trades
    /\ votes = C15_ForcedNo.votes
    /\ \A u \in Users :
         balance[MarketLeague][u]
           = last.pre.balance[MarketLeague][u]
             + 100 * last.pre.positions[u].no + C13_Escrow(last.pre, u)

\* the sweep met a holder of 4 NO shares, a holder of YES shares and a
\* resting order, and credited the holder of the NO shares 400 tokens
C15_Witness ==
  /\ LastExpiry
  /\ \E u \in Users :
       /\ last.pre.positions[u].no = 4
       /\ C13_Escrow(last.pre, u) = 0
       /\ balance[MarketLeague][u] = last.pre.balance[MarketLeague][u] + 400
  /\ \E u \in Users : last.pre.positions[u].yes > 0
  /\ last.pre.orders # <<>>

(* -------------------------------- C16 ---------------------------------- *)
\* what a sweep may change
C16_Market ==
  <<status, resolved_outcome, reported_by, balance, positions, orders,
    trades, votes>>

C17_Store ==
  <<status, resolved_outcome, reported_by, balance, positions, orders,
    trades, votes>>

\* process p issues the statement of a report
C17_Reports(p) == req[p].kind = "report" /\ Perform(p)

\* both processes have issued a report and neither has answered yet
C17_BothReported ==
  \A p \in Procs : req[p].kind = "report" /\ req[p].pc = "done"

\* C17: however reports interleave with each other and with other requests,
\* the update of a report on an OPEN market sets the status VOTING and
\* reported_by to its own user and changes nothing else; on a market that is
\* not OPEN it affects no row, changes nothing and is answered as a no-op;
\* of two reports in flight together exactly one changes the market.
C17_ReportCAS ==
  [][/\ \A p \in Procs :
          C17_Reports(p) =>
            IF status = "OPEN"
            THEN /\ status' = "VOTING"
                 /\ reported_by' = req[p].user
                 /\ req'[p].result = "ok"
                 /\ UNCHANGED <<resolved_outcome, balance, positions, orders,
                                trades, votes>>
            ELSE /\ UNCHANGED C17_Store
                 /\ req'[p].result = "AlreadyReported"
     /\ C17_BothReported' =>
          Cardinality({p \in Procs : req'[p].result = "ok"}) <= 1]_vars

\* two reports were in flight together on an OPEN market: the report of b
\* changed the market and the report of a changed nothing
C17_Witness ==
  /\ C17_BothReported
  /\ \E p, q \in Procs :
       /\ req[p].user = "b" /\ req[p].result = "ok"
       /\ req[q].user = "a" /\ req[q].result = "AlreadyReported"
  /\ status = "VOTING" /\ reported_by = "b"

(* -------------------------------- C18 ---------------------------------- *)
\* the users who hold a nonzero position in store d
C18_Holders(d) ==
  {u \in Users : d.positions[u].yes # 0 \/ d.positions[u].no # 0}

\* store d is in VOTING, has a vote, and has a vote of every holder
C18_QuorumMet(d, voted) ==
  /\ d.status = "VOTING"
  /\ voted # {}
  /\ C18_Holders(d) \subseteq voted

\* the last request was a tally: resolve-market without an admin, invoked
\* directly or by the client of the voter who voted last
C18_LastTally == last.req.kind = "resolve" /\ last.req.admin = "NONE"

\* C18: a resolve-market request without an admin that does not meet a
\* market in VOTING, a vote, and a vote of every holder of a nonzero position
\* is answered with an error and changes nothing; a tally that was accepted
\* met all three (the vote of the voter whose client invoked it included).
C18_Quorum ==
  [][/\ \A outcome \in Sides :
          (ResolveMarket("NONE", outcome)
           /\ ~C18_QuorumMet(DB, {u \in Users : votes[u].exists}))
          => (UNCHANGED C17_Store /\ nreq' = nreq)
     /\ C18_LastTally' =>
          C18_QuorumMet(last'.pre, {u \in Users : last'.pre.votes[u].exists}
                                     \cup ({last'.req.by} \ {"NONE"}))]_vars

\* a tally was accepted when both holders had voted, one YES and one NO
C18_Witness ==
  /\ C18_LastTally
  /\ Cardinality(C18_Holders(last.pre)) = 2
  /\ last.req.verdict = "REJECTED"

(* ------------------------------- C19 ----------------------------------- *)
\* the tally that has run, if any
C19_Tally == req[1]

C19_Tallied == C19_Tally.kind = "tally" /\ C19_Tally.pc = "done"

\* yesW and noW of the claim, exactly: both multiplied by ten times the
\* number of non-admin voters (by ten when there is none)
C19_yesW ==
  LET t == C19_Tally
  IN IF t.y + t.n > 0
     THEN t.yes_bloc_weight * t.y + t.admin_weight * t.a * (t.y + t.n)
     ELSE t.admin_weight * t.a

C19_noW ==
  LET t == C19_Tally
  IN IF t.y + t.n > 0
     THEN t.no_bloc_weight * t.n + t.admin_weight * t.b * (t.y + t.n)
     ELSE t.admin_weight * t.b

\* C19: the consensus of the weighted tally is YES exactly when yesW > noW,
\* where yesW = yes_bloc_weight * y/(y+n) + admin_weight * a and
\* noW = no_bloc_weight * n/(y+n) + admin_weight * b; every tie, and the
\* tally in which both are 0, is REJECTED.
C19_AsStated ==
  C19_Tallied =>
    /\ C19_Tally.verdict = "YES" <=> C19_yesW > C19_noW
    /\ C19_yesW = C19_noW => C19_Tally.verdict = "REJECTED"

(* ------------------------------- C20 ----------------------------------- *)
\* the last request was a tally that ended in a YES consensus
C20_Consensus == C18_LastTally /\ last.req.verdict = "YES"

\* the store the tally met: the one the last vote left when the client of
\* that voter invoked it
C20_TallyStore ==
  IF last.req.by = "NONE" THEN last.pre
  ELSE RunTo(last.pre,
             VoteRequest(last.req.by, votes[last.req.by].vote), "market").db

\* the stake of u in store d if u voted YES
C20_YesStake(d, u) ==
  IF d.votes[u].exists /\ d.votes[u].vote = "YES" THEN d.votes[u].stake ELSE 0

\* C20: on a YES consensus the market is RESOLVED with resolved_outcome YES,
\* whatever outcome the request names; the settlement runs (100 per YES share,
\* the escrow of every resting order, no order left); every YES voter is
\* credited exactly the stake of their vote and no NO voter any stake.
C20_YesConsensus ==
  C20_Consensus =>
    /\ status = "RESOLVED" /\ resolved_outcome = "YES"
    /\ \A outcome \in Sides :
         Run(C20_TallyStore, ResolveRequest("NONE", outcome)).db = DB
    /\ orders = <<>>
    /\ \A u \in Users :
         balance[MarketLeague][u]
           = C20_TallyStore.balance[MarketLeague][u]
             + C20_YesStake(C20_TallyStore, u)
             + 100 * Shares(C20_TallyStore.positions[u], "YES")
             + C13_Escrow(C20_TallyStore, u)

\* a YES consensus of two YES voters over one NO voter, each with a stake
C20_Witness ==
  /\ C20_Consensus
  /\ \E u \in Users : votes[u].exists /\ votes[u].vote = "NO" /\ votes[u].stake > 0
  /\ \E u \in Users : votes[u].exists /\ votes[u].vote = "YES" /\ votes[u].stake > 0

(* ------------------------------- C21 ----------------------------------- *)
\* the last request was a tally that ended in a rejection
C21_Rejected == C18_LastTally /\ last.req.verdict = "REJECTED"

\* the stores the tally may have met: the one the last vote left when the
\* client of that voter invoked it, for either vote (the rejection deleted it)
C21_TallyStores ==
  IF last.req.by = "NONE" THEN {last.pre}
  ELSE {RunTo(last.pre, VoteRequest(last.req.by, v), "market").db : v \in Sides}

\* the stake of u in store d if u voted NO
C21_NoStake(d, u) ==
  IF d.votes[u].exists /\ d.votes[u].vote = "NO" THEN d.votes[u].stake ELSE 0

\* the tally met store d and left the store as the claim says
C21_RejectedFrom(d) ==
  /\ Run(d, ResolveRequest("NONE", "YES")).db = DB
  /\ status = "OPEN" /\ reported_by = "NONE"
  /\ resolved_outcome = d.resolved_outcome
  /\ \A u \in Users : ~votes[u].exists
  /\ \A l \in Leagues, u \in Users :
       balance[l][u] = d.balance[l][u]
                       + (IF l = MarketLeague THEN C21_NoStake(d, u) ELSE 0)
  /\ positions = d.positions /\ orders = d.orders /\ trades = d.trades
  /\ hist.paid = d.hist.paid /\ hist.refunded = d.hist.refunded

\* C21: when the tally rejects the vote (yesPercentage <= 50) every NO voter
\* is credited exactly the stake of their vote, no YES voter is credited, all
\* votes of the market are deleted, the report is cleared, the status is OPEN
\* again, and no position is paid and no order refunded.
C21_VoteRejection ==
  C21_Rejected => \E d \in C21_TallyStores : C21_RejectedFrom(d)

\* a rejection of a NO vote and a YES vote, each with a stake
C21_Witness ==
  /\ C21_Rejected
  /\ \E d \in C21_TallyStores :
       /\ C21_RejectedFrom(d)
       /\ \E u \in Users : C21_NoStake(d, u) > 0
       /\ \E u \in Users : d.votes[u].exists /\ d.votes[u].vote = "YES"
                           /\ d.votes[u].stake > 0

(* ------------------------------- C22 ----------------------------------- *)
\* what the click on `vote` in modal p does up to the insert of the vote
\* and the refund after a failed one
C22_Cast(p, vote) == RunTo(DB, [req[p] EXCEPT !.vote = vote], "positions")

\* the vote of user u went through: a row where there was none, and the
\* balance of u in the league of the market lower by the stake
C22_Inserted(cast, u, vote, stake) ==
  /\ cast.r.pc = "positions"
  /\ ~votes[u].exists
  /\ cast.db.votes =
       [votes EXCEPT ![u] = [exists |-> TRUE, vote |-> vote, stake |-> stake]]
  /\ cast.db.balance = [balance EXCEPT ![MarketLeague][u] = @ - stake]

\* the vote failed: no row added or changed, every balance as it was
C22_Nothing(cast) ==
  /\ cast.r.pc = "done" /\ cast.r.result # "ok"
  /\ cast.db.votes = votes
  /\ cast.db.balance = balance

\* C22: a click on a vote button either inserts the vote row of the user and
\* lowers their league balance by exactly the stake, or adds no vote row and
\* leaves the balance unchanged (the stake taken before a failed insert, such
\* as a second vote of the same user, is given back); a user who has a vote
\* row never gets another.  What follows the vote (the tally, when all have
\* voted) starts from that store.
C22_AllOrNothing ==
  [][\A p \in Procs, vote \in Sides :
       HandleVote(p, vote) =>
         /\ Run(C22_Cast(p, vote).db, C22_Cast(p, vote).r).db = DB'
         /\ \/ C22_Inserted(C22_Cast(p, vote), req[p].user, vote,
                            req[p].stakeAmount)
            \/ C22_Nothing(C22_Cast(p, vote))]_vars

\* a second vote of a user who has voted failed, after its stake was taken
C22_Witness ==
  /\ last.req.kind = "vote" /\ last.req.result = "VoteFailed"
  /\ last.req.stakeAmount > 0
  /\ last.pre.votes[last.req.user].exists
  /\ votes = last.pre.votes /\ balance = last.pre.balance
  /\ hist.applied = last.pre.hist.applied

(* ------------------------------- C23 ----------------------------------- *)
\* user u holds a nonzero position in the market
C23_Holds(u) ==
  positions[u].exists /\ (positions[u].yes > 0 \/ positions[u].no > 0)

\* C23: a click on a vote button inserts a vote row and takes a stake only
\* if, when it does, the market is in VOTING and the voter holds a nonzero
\* position in it; a click on a market that has left VOTING since the modal
\* found it (resolved, rejected back to OPEN, or cancelled) leaves the votes
\* and the balances unchanged.
C23_OnlyWhileVoting ==
  [][\A p \in Procs, vote \in Sides :
       HandleVote(p, vote) =>
         \/ status = "VOTING" /\ C23_Holds(req[p].user)
         \/ /\ C22_Cast(p, vote).db.votes = votes
            /\ C22_Cast(p, vote).db.balance = balance]_vars

(* ------------------------------- C24 ----------------------------------- *)
\* the next statement of process p returns a stake
C24_Credit(p) ==
  /\ req[p].todo # <<>>
  /\ Head(req[p].todo).op = "bal_add"
  /\ Head(req[p].todo).why = "stake"

\* the stake of the vote of u has not been returned, and the vote of u is
\* the consensus of the tally of process p
C24_Due(p, u) ==
  /\ votes[u].exists
  /\ hist.staked[u] = 0
  /\ votes[u].vote = (IF req[p].verdict = "REJECTED" THEN "NO" ELSE "YES")

\* C24: in every interleaving of the statements of votes and tallies, two
\* tallies of the same market running at once included, a stake is returned
\* to a voter only when the stake of that vote has not been returned before
\* and the vote agrees with the consensus of the tally.
C24_StakesOnce ==
  [][\A p \in Procs :
       (Perform(p) /\ C24_Credit(p)) => C24_Due(p, Head(req[p].todo).u)]_vars

(* ------------------------------- C25 ----------------------------------- *)
\* request r, run on the store as it is, ends with one of `errors` and
\* leaves the store as it is
C25_Refused(r, errors) ==
  /\ Run(DB, r).r.result \in errors
  /\ Run(DB, r).db = DB

\* C25: while the market is not OPEN (VOTING, RESOLVED or CANCELLED) every
\* PlaceOrder and every PlaceSellOrder is rejected, and the rejected request
\* changes no balance, position, order or trade.
C25_ClosedToTrading ==
  status # "OPEN" =>
    \A u \in Users, side \in Sides, price \in Prices, quantity \in 1..MaxQty :
      /\ C25_Refused(PlaceRequest(u, side, price, quantity, MarketLeague),
                     {"MarketNotOpen", "PendingVote"})
      /\ C25_Refused(SellRequest(u, side, price, quantity, MarketLeague),
                     {"MarketNotOpen"})

\* the market is in VOTING and a trader who has voted, holds a share and has
\* tokens is refused a buy and a sell because the market is not OPEN
C25_Witness ==
  /\ status = "VOTING"
  /\ \E u \in Traders, side \in Sides :
       /\ votes[u].exists
       /\ Shares(positions[u], side) > 0
       /\ balance[MarketLeague][u] >= 100
       /\ C25_Refused(PlaceRequest(u, side, PriceOf[side], 1, MarketLeague),
                      {"MarketNotOpen"})
       /\ C25_Refused(SellRequest(u, side, PriceOf[side], 1, MarketLeague),
                      {"MarketNotOpen"})

(* ------------------------------- C26 ----------------------------------- *)
\* request r, run on the store as it is, ends with an error and leaves the
\* store as it is
C26_Rejected(r) ==
  /\ Run(DB, r).r.result # "ok"
  /\ Run(DB, r).db = DB

\* the price is outside 1..99 or the quantity is less than 1
C26_OutOfRange(price, quantity) == price < 1 \/ price > 99 \/ quantity < 1

\* place-order rejects every request out of range
C26_PlaceOrder ==
  \A u \in Traders, side \in Sides, price \in InputPrices,
     quantity \in InputQuantities :
    C26_OutOfRange(price, quantity) =>
      C26_Rejected(PlaceRequest(u, side, price, quantity, MarketLeague))

\* sell-position rejects every request out of range
C26_PlaceSellOrder ==
  \A u \in Traders, side \in Sides, price \in InputPrices,
     quantity \in InputQuantities :
    C26_OutOfRange(price, quantity) =>
      C26_Rejected(SellRequest(u, side, price, quantity, MarketLeague))

\* C26: PlaceOrder and PlaceSellOrder both reject every request whose price
\* is outside 1..99 or whose quantity is less than 1, and the rejected
\* request changes no balance, position, order or trade.
C26_InputsValidated == C26_PlaceOrder /\ C26_PlaceSellOrder

(* ------------------------------- C27 ----------------------------------- *)
\* a market in VOTING has no vote of user u
C27_PendingVote(u) == status = "VOTING" /\ ~votes[u].exists

\* request r of user u meets the gate: rejected with the pending-vote error
\* and nothing changed when u has a pending vote, not stopped by the gate
\* otherwise
C27_Gated(u, r) ==
  IF C27_PendingVote(u)
  THEN Run(DB, r).r.result = "PendingVote" /\ Run(DB, r).db = DB
  ELSE Run(DB, r).r.result # "PendingVote"

\* the gate of place-order
C27_PlaceOrder ==
  \A u \in Users, side \in Sides, price \in Prices, quantity \in 1..MaxQty :
    C27_Gated(u, PlaceRequest(u, side, price, quantity, MarketLeague))

\* the gate of sell-position
C27_PlaceSellOrder ==
  \A u \in Users, side \in Sides, price \in Prices, quantity \in 1..MaxQty :
    C27_Gated(u, SellRequest(u, side, price, quantity, MarketLeague))

\* C27: a PlaceOrder or PlaceSellOrder of a user who has not voted on a
\* market in VOTING is rejected with the pending-vote error and changes no
\* state; the gate lets the request pass when the user has voted on every
\* market in VOTING.
C27_PendingVoteGate == C27_PlaceOrder /\ C27_PlaceSellOrder

(* ------------------------------- C28 ----------------------------------- *)
\* the row of order `id` in the store, if there is one
C28_Row(id) == SelectSeq(orders, LAMBDA o : o.id = id)

\* the positions after `quantity` shares of `side` are given back to user u
C28_Restored(u, side, quantity) ==
  IF side = "YES" THEN [positions EXCEPT ![u].yes = @ + quantity]
  ELSE [positions EXCEPT ![u].no = @ + quantity]

\* what the cancellation of order `id` by user u is to leave behind
C28_Cancelled(u, id) ==
  /\ orders' = SelectSeq(orders, LAMBDA o : o.id # id)
  /\ balance' = balance
  /\ positions' =
       IF C28_Row(id) # <<>> /\ C28_Row(id)[1].sell
       THEN C28_Restored(u, C28_Row(id)[1].side, C28_Row(id)[1].remaining)
       ELSE positions

\* C28: a cancellation deletes the resting order; for a sell order, exactly
\* the remaining_quantity the order has when it is deleted is added back to
\* the position of the owner on that side, also when the order was filled in
\* part, or the position changed, after the owner loaded the page; for a buy
\* order no balance and no position changes.
C28_CancelRestores ==
  [][\A u \in Traders, id \in OrderIds :
       (ClickCancel(u, id) /\ nreq' = nreq + 1) => C28_Cancelled(u, id)]_vars

(* ------------------------------- C29 ----------------------------------- *)
\* request r, its escrow write failing at the store, ends with an error and
\* has recorded no trade, changed no position and no order, and rested none
C29_Stopped(r) ==
  /\ Run(DB, [r EXCEPT !.escrowFails = TRUE]).r.result # "ok"
  /\ Run(DB, [r EXCEPT !.escrowFails = TRUE]).db = DB

\* place-order of a user who is not an admin
C29_PlaceOrder ==
  \A u \in Traders, side \in Sides, price \in Prices, quantity \in 1..MaxQty :
    C29_Stopped(PlaceRequest(u, side, price, quantity, MarketLeague))

\* sell-position
C29_PlaceSellOrder ==
  \A u \in Traders, side \in Sides, price \in Prices, quantity \in 1..MaxQty :
    C29_Stopped(SellRequest(u, side, price, quantity, MarketLeague))

\* C29: a PlaceOrder or PlaceSellOrder whose escrow write (tokens for a buy
\* of a user who is not an admin, shares for a sell) fails at the store ends
\* with an error before any matching: it records no trade, changes no
\* position and no resting order, and rests no order.
C29_EscrowBeforeMatch == C29_PlaceOrder /\ C29_PlaceSellOrder

(* ------------------------------- C30 ----------------------------------- *)
\* C30: once a settlement of the market (a forced resolution, a resolution
\* by the consensus of the votes, or the expiry sweep) has paid out, every
\* position in the market has yes_shares = 0 and no_shares = 0, so that no
\* position is paid twice.
C30_PaidPositionsZeroed ==
  status = "RESOLVED" =>
    /\ \A u \in Users : positions[u].yes = 0 /\ positions[u].no = 0
    /\ \A u \in Users : hist.paid[u] <= 1

(* -------------------------------- C31 ---------------------------------- *)
\* C31: however the statements of place-order, sell-position, order
\* cancellation, votes, tallies, force-resolve, cancel-market and the expiry
\* sweep interleave on requests with valid inputs, every league balance and
\* the yes_shares and no_shares of every position are at least 0.
C31_NonNegative ==
  /\ \A l \in Leagues, u \in Users : balance[l][u] >= 0
  /\ \A u \in Users : positions[u].yes >= 0 /\ positions[u].no >= 0

\* a buy was refused for its cost while a trader has sold every share held
C31_Witness ==
  /\ \E p \in Procs : /\ req[p].kind = "place" /\ req[p].pc = "done"
                      /\ req[p].result = "InsufficientBalance"
  /\ \E u \in Traders : /\ positions[u].exists
                        /\ positions[u].yes + positions[u].no = 0

(* -------------------------------- C32 ---------------------------------- *)
\* the buy order place-order matched in a mint, as it rested before
C32_Resting(match) ==
  SelectSeq(last.pre.orders, LAMBDA o : o.id = match.orderId)[1]

\* C32: for every mint fill of place-order between two users who are not
\* admins, the cost per unit debited from the incoming buyer and the cost per
\* unit debited from the owner of the resting order add up to 100, the
\* payout of the minted pair.
C32_MintCollateral ==
  (LastPlace /\ last.req.user \notin Admins) =>
    \A i \in 1..Len(last.req.matches) :
      (/\ ~last.req.matches[i].isContractTransfer
       /\ last.req.matches[i].orderUserId \notin Admins)
      => CostPerShare(last.req.side, last.req.price)
         + CostPerShare(C32_Resting(last.req.matches[i]).side,
                        C32_Resting(last.req.matches[i]).price) = 100

(* -------------------------------- C33 ---------------------------------- *)
\* the last request settled the market: a resolution, a cancellation or the
\* sweep
C33_Settled == last.req.kind \in {"resolve", "cancelmarket", "expiry"}

\* C33: when a market is cancelled, resolved or swept, the owner of a resting
\* order is credited no more than was debited for its remaining units: a
\* resting sell order, which escrowed shares, and a buy order of an admin,
\* which was placed without a debit, produce no token credit.
C33_RefundsWhatWasDebited ==
  C33_Settled =>
    \A i \in 1..Len(last.pre.orders) :
      (/\ last.pre.orders[i].remaining > 0
       /\ (last.pre.orders[i].sell \/ last.pre.orders[i].user \in Admins))
      => hist.refunded[last.pre.orders[i].id]
         = last.pre.hist.refunded[last.pre.orders[i].id]

(* -------------------------------- C34 ---------------------------------- *)
\* the shares of `side` user u has escrowed in resting sell orders of store d
C34_Escrowed(d, u, side) ==
  SumSeq([i \in 1..Len(d.orders) |->
            IF d.orders[i].sell /\ d.orders[i].user = u /\ d.orders[i].side = side
            THEN d.orders[i].remaining ELSE 0])

\* the last request resolved the market: resolve-market with an outcome, or
\* the sweep
C34_Resolved ==
  \/ last.req.kind = "expiry"
  \/ last.req.kind = "resolve" /\ last.req.verdict \in Sides

\* user u had nothing else to be credited for: no resting buy order, no vote
C34_OnlyShares(d, u) ==
  /\ \A i \in 1..Len(d.orders) : d.orders[i].user = u => d.orders[i].sell
  /\ ~d.votes[u].exists

\* C34: when a market resolves with outcome O (or is swept to NO), the owner
\* of a resting sell order of side O is credited 100 tokens for each share
\* escrowed in it, as for the shares of side O in the position.
C34_EscrowedSharesPaid ==
  C34_Resolved =>
    \A u \in Users :
      (/\ C34_Escrowed(last.pre, u, resolved_outcome) > 0
       /\ C34_OnlyShares(last.pre, u))
      => balance[MarketLeague][u] - last.pre.balance[MarketLeague][u]
         = 100 * (Shares(last.pre.positions[u], resolved_outcome)
                  + C34_Escrowed(last.pre, u, resolved_outcome))

(* -------------------------------- C35 ---------------------------------- *)
\* the order the last request, a click on Cancel, removed, as it rested before
C35_Cancelled == SelectSeq(last.pre.orders, LAMBDA o : o.id = last.req.id)

\* C35: the tokens debited for a buy order of a user who is not an admin are
\* not lost: when its owner cancels the order, the cost of every unit that
\* was still resting is credited back to the owner's league balance.
C35_DebitReturned ==
  (/\ last.req.kind = "cancelorder"
   /\ C35_Cancelled # <<>>
   /\ ~C35_Cancelled[1].sell
   /\ C35_Cancelled[1].user \notin Admins)
  => /\ RemainingNow(last.req.id) = 0
     /\ balance[MarketLeague][C35_Cancelled[1].user]
        = last.pre.balance[MarketLeague][C35_Cancelled[1].user]
          + CostPerShare(C35_Cancelled[1].side, C35_Cancelled[1].price)
            * C35_Cancelled[1].remaining

(* -------------------------------- C36 ---------------------------------- *)
\* a resolution, a cancellation or a sweep of the market is still running
C36_Settling ==
  \E p \in Procs : /\ req[p].kind \in {"resolve", "cancelmarket", "expiry"}
                   /\ req[p].pc # "done"

\* C36: once the market is RESOLVED or CANCELLED and its settlement request
\* has finished, no order rests on it, also when place-order or sell-position
\* requests that had passed their check of status = OPEN ran beside the
\* settlement.
C36_NoOrderAfterSettlement ==
  (status \in {"RESOLVED", "CANCELLED"} /\ ~C36_Settling)
  => \A i \in 1..Len(orders) : orders[i].remaining = 0

(* -------------------------------- C37 ---------------------------------- *)
\* the voters whose stake the last request, an admin ending the vote, had to
\* return: the voters of the outcome of a force-resolve, every voter of a
\* cancellation
C37_Owed ==
  {u \in Users :
     /\ last.pre.status = "VOTING"
     /\ last.pre.votes[u].exists /\ last.pre.votes[u].stake > 0
     /\ \/ last.req.kind = "cancelmarket"
        \/ /\ last.req.kind = "resolve" /\ last.req.admin \in Admins
           /\ last.pre.votes[u].vote = last.req.outcome}

\* C37: when an admin force-resolves a market in VOTING with outcome O, the
\* stake of every voter of O is credited back, and when an admin cancels a
\* market in VOTING, the stake of every voter is credited back.
C37_StakesReturned ==
  \A u \in C37_Owed : hist.staked[u] >= 1

(* -------------------------------- C38 ---------------------------------- *)
\* C38: every debit and credit of place-order and sell-position on a market
\* goes to a membership balance of the league of the market, the one
\* settlement and cancellation credit: the balances of another league are
\* left as they were.
C38_LeagueScoped ==
  \A l \in Leagues \ {MarketLeague} : balance[l] = InitDB.balance[l]

(* -------------------------------- C39 ---------------------------------- *)
\* C39: without an admin, and every stakeholder who can vote voting, a
\* market that enters VOTING eventually leaves VOTING (RESOLVED on a YES
\* consensus, OPEN again on a rejection), also when it was reported while
\* nobody holds a position.
C39_VotingEnds == (status = "VOTING") ~> (status # "VOTING")

(* -------------------------------- C40 ---------------------------------- *)
\* C40: the pending-vote gate of place-order stops only users who can vote: a
\* user with no position in a market in VOTING is not rejected by place-order
\* with the pending-vote error.
C40_GateOnlyVoters ==
  \A u \in Users, side \in Sides :
    ~positions[u].exists
    => Run(DB, PlaceRequest(u, side, PriceOf[side], 1, MarketLeague)).r.result
       # "PendingVote"

====
